---- MODULE Spec2Model ----
(***************************************************************************)
(* Helmfire: the substitution registry (pkg/substitute), the release sync  *)
(* executor (pkg/sync), the drift detector (pkg/drift) and the daemon      *)
(* with its API (pkg/daemon), modelled as state machines.                  *)
(*                                                                         *)
(*   SpecSeq  : one caller issuing whole registry calls                    *)
(*   SpecSync : SyncRelease step by step, beside the registry calls of     *)
(*              other goroutines                                           *)
(*   SpecConc : several goroutines stepping through the registry calls,    *)
(*              with the registry's sync.RWMutex modelled explicitly       *)
(*   SpecConcFair : goroutines calling the image methods of the registry,  *)
(*              scheduled fairly                                           *)
(*   SpecDet  : the drift detector's Start / Stop / run loop               *)
(*   SpecTick : one detector, configured, started and checking its units   *)
(*   SpecSev  : checkReleaseDrift on every diff length                     *)
(*   SpecLive : one detector started and stopped by one caller, its run    *)
(*              goroutine scheduled fairly                                 *)
(*   SpecDaemon : daemon processes started on one PID file                 *)
(*   SpecStale  : the same, on the PID file a crashed daemon left          *)
(*   SpecStopd  : one daemon process, its API shutdown request, and the    *)
(*              "daemon status" and "daemon stop" commands                 *)
(*   SpecStopErr : one daemon process, its Stop called again                *)
(*   SpecApi  : requests to the daemon's substitution handlers             *)
(*   SpecClient : one daemon process and the registry commands of the CLI  *)
(*   SpecList : a list or status request served beside other requests     *)
(*   SpecExit : SpecLive with the callers' goroutines scheduled and the    *)
(*              select of the run loop taking ctx.Done() in the end        *)
(***************************************************************************)
EXTENDS Integers, Sequences, FiniteSets, TLC

VARIABLES
    charts,      \* Manager.charts : original chart -> local path
    images,      \* Manager.images : original image -> replacement
    releases,    \* helmstate.Manager.Spec.Releases
    ret,         \* what the last call to return did and returned (SpecSeq)
    prev,        \* the successful add right before it, if any (SpecSeq)
    refCharts,   \* reference registry: set of <<original, path>> pairs
    refImages,   \* reference registry: set of <<original, replacement>> pairs
    mu,          \* Manager.mu : the writer (at most one) and the readers inside
    gor,         \* per goroutine: the registry call in progress (SpecConc)
    completed,   \* <<original, replacement>> written by returned AddImage calls
    calls,       \* number of registry calls begun so far (SpecConc)
    panicked,    \* the Go runtime detected a concurrent map access
    dRunning,    \* Detector.running
    dCtx,        \* Detector.ctx : the context the run loop selects on
    dCancel,     \* Detector.cancel : the context that calling it cancels
    ctxs,        \* number of contexts context.WithCancel has made so far
    cancelled,   \* the contexts whose cancel function was called
    parentDone,  \* the context passed to Start was cancelled by its owner
    wg,          \* Detector.wg : the WaitGroup counter
    loops,       \* the run goroutines started so far, in order
    callers,     \* per caller of the detector: the call in progress
    dcalls,      \* number of detector calls begun so far
    dManager,    \* Detector.manager
    notifiers,   \* Detector.notifiers
    autoHeal,    \* Detector.autoHeal
    healFunc,    \* Detector.healFunc
    hist,        \* history: the call of the latest Start that made a context and
                 \* the latest call begun when a Stop last returned nil
    checked,     \* a release and a diff run, and the report made of them (SpecSev)
    pidFile,     \* the PID file the daemons share: absent, or its bytes
    alive,       \* the pids of the processes there are
    port,        \* the pid of the process listening on the API address, or 0
    dmn,         \* per daemon process: its Daemon, API server and detector
    cli,         \* the process running "daemon stop" / "daemon status"
    resp,        \* the latest request to the daemon's API and its answer
    client,      \* the latest registry command of the helmfire CLI and where it went
    lst,         \* the list or status request the API is serving beside others (SpecList)
    sync,        \* the SyncRelease call in progress (SpecSync)
    req          \* the request of a registry command the daemon is serving (SpecClient)

vars == <<charts, images, releases, ret, prev, refCharts, refImages,
          mu, gor, completed, calls, panicked,
          dRunning, dCtx, dCancel, ctxs, cancelled, parentDone, wg, loops,
          callers, dcalls, dManager, notifiers, autoHeal, healFunc, hist,
          checked, pidFile, alive, port, dmn, cli, resp, client, lst, sync, req>>

regVars == <<charts, images>>
seqVars == <<releases, ret, prev, refCharts, refImages, sync>>
concVars == <<mu, gor, completed, calls, panicked>>
dLife == <<dRunning, dCtx, dCancel, ctxs, cancelled, parentDone, wg>>
dConf == <<dManager, notifiers, autoHeal, healFunc>>
detState == <<dRunning, dCtx, dCancel, ctxs, cancelled, wg, loops, dConf>>
detVars == <<dRunning, dCtx, dCancel, ctxs, cancelled, parentDone, wg, loops,
             callers, dcalls, dConf, hist, checked>>

----------------------------------------------------------------------------
(* Values *)

Nil == "nil"
None == "none"

ErrNotExist == "local path does not exist"
ErrNoChartYAML == "not a valid chart directory (missing Chart.yaml)"
ErrEmptyImageRef == "image references cannot be empty"
ErrChartNotFound == "chart substitution not found"
ErrImageNotFound == "image substitution not found"
ErrHelmFailed == "helm command failed"

\* Original chart references callers use ("repo/a", "repo/b"), written like
\* every other path-like string as the sequence of their elements.
ChartRefs == {<<"repo", "a">>, <<"repo", "b">>}

\* Image references and replacements callers use; "" is the empty string.
ImageRefs == {"", "nginx", "pg"}
Replacements == {"", "r1", "r2"}

----------------------------------------------------------------------------
(* Paths: a path is the sequence of its elements; an absolute path starts  *)
(* with the root element "/".                                              *)

Root == "/"
EmptyPath == <<>>          \* the empty string, as a path
Cwd == <<Root, "w">>
ChartYAML == "Chart.yaml"

\* The file system the process runs on: every existing entry and its kind.
FSEntries ==
    { [path |-> <<Root>>,                        kind |-> "dir"],
      [path |-> <<Root, "w">>,                   kind |-> "dir"],
      [path |-> <<Root, "w", "good">>,           kind |-> "dir"],
      [path |-> <<Root, "w", "good", ChartYAML>>, kind |-> "file"],
      [path |-> <<Root, "w", "other">>,          kind |-> "dir"],
      [path |-> <<Root, "w", "other", ChartYAML>>, kind |-> "file"],
      [path |-> <<Root, "w", "nochart">>,        kind |-> "dir"],
      [path |-> <<Root, "w", "plain">>,          kind |-> "file"] }

\* The localPath arguments callers pass.
LocalPaths ==
    { <<"good">>,                    \* relative, a chart directory
      <<Root, "w", "good">>,         \* the same directory, absolute
      <<".", "other">>,              \* relative and unclean, a chart directory
      <<"nochart", "..", "good">>,   \* unclean, resolves to /w/good
      <<"nochart">>,                 \* a directory without Chart.yaml
      <<"plain">>,                   \* a regular file
      <<"missing">> }                \* does not exist

IsAbs(p) == Len(p) > 0 /\ p[1] = Root

\* filepath.Clean on the element sequence: drops "." elements and resolves
\* "..", which never climbs above the root.
RECURSIVE CleanFrom(_, _)
CleanFrom(todo, done) ==
    IF todo = <<>> THEN done
    ELSE LET e == Head(todo) IN
         IF e = "." THEN CleanFrom(Tail(todo), done)
         ELSE IF e = ".."
              THEN IF Len(done) > 0 /\ done[Len(done)] \notin {Root, ".."}
                   THEN CleanFrom(Tail(todo), SubSeq(done, 1, Len(done) - 1))
                   ELSE IF Len(done) > 0 /\ done[Len(done)] = Root
                        THEN CleanFrom(Tail(todo), done)
                        ELSE CleanFrom(Tail(todo), Append(done, e))
              ELSE CleanFrom(Tail(todo), Append(done, e))

Clean(p) == CleanFrom(p, <<>>)

\* filepath.Join(elem...) = Clean of the concatenation.
Join(p, q) == Clean(p \o q)

\* filepath.Abs: an absolute path is cleaned, a relative one is joined to
\* the working directory.
Abs(p) == IF IsAbs(p) THEN Clean(p) ELSE Join(Cwd, p)

\* os.Stat succeeds iff the entry exists (of whatever kind).
Stat(p) == \E e \in FSEntries : e.path = p

----------------------------------------------------------------------------
(* Go maps *)

EmptyMap == << >>

MapHas(m, k) == k \in DOMAIN m

\* MapSet as a map that keeps the first value written for a key.
MapSetKeepFirst(m, k, v) ==
    IF k \in DOMAIN m THEN m
    ELSE [x \in (DOMAIN m) \cup {k} |-> IF x = k THEN v ELSE m[x]]

MapSet(m, k, v) == [x \in (DOMAIN m) \cup {k} |-> IF x = k THEN v ELSE m[x]]

\* MapDelete with the delete statement lost.
MapDeleteNothing(m, k) == m

MapDelete(m, k) == [x \in (DOMAIN m) \ {k} |-> m[x]]

\* v, ok := m[k] : the zero value when the key is absent
MapGet(m, k, zero) == IF k \in DOMAIN m THEN [val |-> m[k], ok |-> TRUE]
                      ELSE [val |-> zero, ok |-> FALSE]

\* All orders in which `for k, v := range m` may visit the keys of m.
RangeOrders(m) ==
    LET n == Cardinality(DOMAIN m) IN
    { s \in [1..n -> DOMAIN m] : \A i, j \in 1..n : s[i] = s[j] => i = j }

----------------------------------------------------------------------------
(* pkg/substitute: the steps of the Manager's methods *)

\* ValidateChartPath without the Chart.yaml check.
ValidateChartPathNoMarker(localPath) ==
    LET absPath == Abs(localPath) IN
    IF ~Stat(absPath)
    THEN [err |-> ErrNotExist, absPath |-> absPath]
    ELSE [err |-> Nil, absPath |-> absPath]

\* AddChartSubstitution, before it takes the lock: resolve and validate
\* localPath.
ValidateChartPath(localPath) ==
    LET absPath == Abs(localPath) IN
    IF ~Stat(absPath)
    THEN [err |-> ErrNotExist, absPath |-> absPath]
    ELSE IF ~Stat(Join(absPath, <<ChartYAML>>))
         THEN [err |-> ErrNoChartYAML, absPath |-> absPath]
         ELSE [err |-> Nil, absPath |-> absPath]

\* ValidateImageRefs rejecting only when both references are empty.
ValidateImageRefsBothEmpty(original, replacement) ==
    IF original = "" /\ replacement = "" THEN ErrEmptyImageRef ELSE Nil

\* AddImageSubstitution, before it takes the lock.
ValidateImageRefs(original, replacement) ==
    IF original = "" \/ replacement = "" THEN ErrEmptyImageRef ELSE Nil

\* RemoveFrom that treats a missing key as success.
RemoveFromSilently(m, original, notFound) ==
    [m |-> MapDelete(m, original), err |-> Nil]

\* Remove*Substitution under the lock: the map afterwards and the error.
RemoveFrom(m, original, notFound) ==
    IF ~MapHas(m, original)
    THEN [m |-> m, err |-> notFound]
    ELSE [m |-> MapDelete(m, original), err |-> Nil]

\* ApplyChartSubstitutions / ApplyImageSubstitutions under the read lock.
ApplySubstitutions(m, ref) ==
    IF MapHas(m, ref) THEN [val |-> m[ref], ok |-> TRUE]
    ELSE [val |-> ref, ok |-> FALSE]

\* ListChartSubstitutions: one ChartSubstitution per visited key.
ChartList(m, order) ==
    [i \in 1..Len(order) |-> [Original |-> order[i], LocalPath |-> m[order[i]]]]

\* ListImageSubstitutions: one ImageSubstitution per visited key.
ImageList(m, order) ==
    [i \in 1..Len(order) |-> [Original |-> order[i], Replacement |-> m[order[i]]]]

----------------------------------------------------------------------------
(* pkg/helmstate releases and pkg/sync executor *)

StrVal(s) == [isString |-> TRUE, v |-> s]
MapVal(s) == [isString |-> FALSE, v |-> s]

\* The releases of the loaded helmfile.
LoadedReleases ==
    << [Name |-> "web", Namespace |-> "", Chart |-> <<"repo", "a">>, Version |-> "",
        Wait |-> FALSE, Values |-> <<>>, Set |-> <<>>],
       [Name |-> "db", Namespace |-> "apps", Chart |-> <<"repo", "b">>,
        Version |-> "1.2.0", Wait |-> TRUE,
        Values |-> <<StrVal("values.yaml"), MapVal("inline")>>,
        Set |-> <<[Name |-> "replicas", Value |-> "2"]>>],
       [Name |-> "cache", Namespace |-> "apps", Chart |-> <<"repo", "c">>,
        Version |-> "", Wait |-> FALSE, Values |-> <<>>, Set |-> <<>>] >>

\* Executor settings (SetNamespace, SetKubeContext, SetDryRun).
ExecConfigs ==
    { [namespace |-> "", kubeContext |-> "", dryRun |-> FALSE],
      [namespace |-> "team", kubeContext |-> "kind", dryRun |-> TRUE] }

PostRendererPath == <<Root, "tmp", "helmfire-post-renderer.sh">>

RECURSIVE ValuesArgs(_)
ValuesArgs(vals) ==
    IF vals = <<>> THEN <<>>
    ELSE (IF Head(vals).isString THEN <<"-f", Head(vals).v>> ELSE <<>>)
         \o ValuesArgs(Tail(vals))

RECURSIVE SetArgs(_)
SetArgs(sets) ==
    IF sets = <<>> THEN <<>>
    ELSE <<"--set", <<Head(sets).Name, "=", Head(sets).Value>>>>
         \o SetArgs(Tail(sets))

\* EffectiveChart that never consults the registry.
EffectiveChartNoOverride(chartMap, release) == release.Chart

\* SyncRelease: the chart handed to helm, as GetChartPath answers for the
\* chart of the release.
EffectiveChart(chartMap, release) ==
    LET r == MapGet(chartMap, release.Chart, EmptyPath) IN
    IF r.ok THEN r.val ELSE release.Chart

\* SyncRelease: the namespace handed to helm.
EffectiveNamespace(cfg, release) ==
    IF release.Namespace # "" THEN release.Namespace
    ELSE IF cfg.namespace # "" THEN cfg.namespace
         ELSE "default"

\* SyncRelease: the helm command line, up to the post-renderer.
HelmArgs(cfg, chart, release) ==
    <<"upgrade", "--install", release.Name, chart>>
    \o <<"--namespace", EffectiveNamespace(cfg, release), "--create-namespace">>
    \o (IF cfg.kubeContext # "" THEN <<"--kube-context", cfg.kubeContext>> ELSE <<>>)
    \o (IF release.Version # "" THEN <<"--version", release.Version>> ELSE <<>>)
    \o (IF release.Wait THEN <<"--wait">> ELSE <<>>)
    \o ValuesArgs(release.Values)
    \o SetArgs(release.Set)
    \o (IF cfg.dryRun THEN <<"--dry-run">> ELSE <<>>)

----------------------------------------------------------------------------
(* SpecSeq: whole calls by one caller *)

NoList == <<>>
NoArgs == <<>>

\* The record of one call: its arguments, its results, and the state it
\* started from.
Call(op, original, arg, err, val, ok, list, helm) ==
    [op |-> op, original |-> original, arg |-> arg, err |-> err,
     val |-> val, ok |-> ok, list |-> list, helm |-> helm,
     preCharts |-> charts, preImages |-> images, preReleases |-> releases]

NoCall ==
    [op |-> None, original |-> "", arg |-> "", err |-> Nil, val |-> "",
     ok |-> FALSE, list |-> NoList, helm |-> NoArgs,
     preCharts |-> EmptyMap, preImages |-> EmptyMap, preReleases |-> <<>>]

\* What is kept of the call before the last one: whether it was a successful
\* add, of which key, and the value it stored.
Brief(c) ==
    IF c.op \in {"AddChart", "AddImage"} /\ c.err = Nil
    THEN [op |-> c.op, original |-> c.original, val |-> c.val]
    ELSE [op |-> None, original |-> "", val |-> ""]

\* The reference registry: a set of pairs with at most one pair per key.
RefPut(ref, k, v) == {e \in ref : e[1] # k} \cup {<<k, v>>}
RefDrop(ref, k) == {e \in ref : e[1] # k}

Returns(c) ==
    /\ ret' = c
    /\ prev' = Brief(ret)

\* AddChartSubstitution storing localPath as given instead of absPath.
AddChartSubstitutionAsGiven(original, localPath) ==
    LET v == ValidateChartPath(localPath) IN
    /\ IF v.err # Nil
       THEN UNCHANGED <<charts, refCharts>>
       ELSE /\ charts' = MapSet(charts, original, localPath)
            /\ refCharts' = RefPut(refCharts, original, localPath)
    /\ Returns(Call("AddChart", original, localPath, v.err, localPath, FALSE, NoList, NoArgs))
    /\ UNCHANGED <<images, refImages, releases>>

AddChartSubstitution(original, localPath) ==
    LET v == ValidateChartPath(localPath) IN
    /\ IF v.err # Nil
       THEN UNCHANGED <<charts, refCharts>>
       ELSE /\ charts' = MapSet(charts, original, v.absPath)
            /\ refCharts' = RefPut(refCharts, original, v.absPath)
    /\ Returns(Call("AddChart", original, localPath, v.err, v.absPath, FALSE, NoList, NoArgs))
    /\ UNCHANGED <<images, refImages, releases>>

AddImageSubstitution(original, replacement) ==
    LET err == ValidateImageRefs(original, replacement) IN
    /\ IF err # Nil
       THEN UNCHANGED <<images, refImages>>
       ELSE /\ images' = MapSet(images, original, replacement)
            /\ refImages' = RefPut(refImages, original, replacement)
    /\ Returns(Call("AddImage", original, replacement, err, replacement, FALSE, NoList, NoArgs))
    /\ UNCHANGED <<charts, refCharts, releases>>

RemoveChartSubstitution(original) ==
    LET r == RemoveFrom(charts, original, ErrChartNotFound) IN
    /\ charts' = r.m
    /\ refCharts' = IF r.err = Nil THEN RefDrop(refCharts, original) ELSE refCharts
    /\ Returns(Call("RemoveChart", original, "", r.err, "", FALSE, NoList, NoArgs))
    /\ UNCHANGED <<images, refImages, releases>>

RemoveImageSubstitution(original) ==
    LET r == RemoveFrom(images, original, ErrImageNotFound) IN
    /\ images' = r.m
    /\ refImages' = IF r.err = Nil THEN RefDrop(refImages, original) ELSE refImages
    /\ Returns(Call("RemoveImage", original, "", r.err, "", FALSE, NoList, NoArgs))
    /\ UNCHANGED <<charts, refCharts, releases>>

GetChartPath(original) ==
    LET r == MapGet(charts, original, EmptyPath) IN
    /\ Returns(Call("GetChartPath", original, "", Nil, r.val, r.ok, NoList, NoArgs))
    /\ UNCHANGED <<charts, images, refCharts, refImages, releases>>

GetImageReplacement(original) ==
    LET r == MapGet(images, original, "") IN
    /\ Returns(Call("GetImageReplacement", original, "", Nil, r.val, r.ok, NoList, NoArgs))
    /\ UNCHANGED <<charts, images, refCharts, refImages, releases>>

ListChartSubstitutions ==
    \E order \in RangeOrders(charts) :
        /\ Returns(Call("ListCharts", "", "", Nil, "", FALSE, ChartList(charts, order), NoArgs))
        /\ UNCHANGED <<charts, images, refCharts, refImages, releases>>

ListImageSubstitutions ==
    \E order \in RangeOrders(images) :
        /\ Returns(Call("ListImages", "", "", Nil, "", FALSE, ImageList(images, order), NoArgs))
        /\ UNCHANGED <<charts, images, refCharts, refImages, releases>>

ApplyChartSubstitutions(chart) ==
    LET r == ApplySubstitutions(charts, chart) IN
    /\ Returns(Call("ApplyChart", chart, "", Nil, r.val, r.ok, NoList, NoArgs))
    /\ UNCHANGED <<charts, images, refCharts, refImages, releases>>

ApplyImageSubstitutions(image) ==
    LET r == ApplySubstitutions(images, image) IN
    /\ Returns(Call("ApplyImage", image, "", Nil, r.val, r.ok, NoList, NoArgs))
    /\ UNCHANGED <<charts, images, refCharts, refImages, releases>>

----------------------------------------------------------------------------
(* SpecSync: SyncRelease step by step.  The executor holds no lock of its  *)
(* own: it reads the registry three times, each time under the registry's  *)
(* read lock, which it releases in between, then writes the post-renderer  *)
(* script and waits for helm.  Registry calls of other goroutines run      *)
(* between the steps.                                                      *)

\* The SyncRelease call in progress: where it is, the release it was given
\* (the i-th of preReleases), the helm arguments built so far, whether a
\* post-renderer was made, the substitutions the sed program of its script
\* was made of, one command each and in this order, and the registry and the
\* releases the call began with.
NoSync ==
    [pc |-> "idle", i |-> 0, args |-> NoArgs, post |-> FALSE, script |-> NoList,
     preCharts |-> EmptyMap, preImages |-> EmptyMap, preReleases |-> <<>>]

\* The record of the SyncRelease call as it returns.
SyncCall(err, list, helm) ==
    LET release == sync.preReleases[sync.i] IN
    [op |-> "SyncRelease", original |-> release.Chart, arg |-> release.Name,
     err |-> err, val |-> "", ok |-> FALSE, list |-> list, helm |-> helm,
     preCharts |-> sync.preCharts, preImages |-> sync.preImages,
     preReleases |-> sync.preReleases]

\* SyncRelease(release) for the i-th loaded release, up to the helm arguments
\* before the post-renderer: the chart is looked up once, by GetChartPath.
SyncRelease(i, cfg) ==
    LET release == releases[i] IN
    /\ sync.pc = "idle"
    /\ sync' = [pc |-> "images", i |-> i,
                args |-> HelmArgs(cfg, EffectiveChart(charts, release), release),
                post |-> FALSE, script |-> NoList,
                preCharts |-> charts, preImages |-> images, preReleases |-> releases]
    /\ UNCHANGED <<charts, images, refCharts, refImages, releases, ret, prev>>

\* SyncRelease: len(ListImageSubstitutions()) > 0 decides whether a
\* post-renderer is made.
SyncReleaseImages ==
    /\ sync.pc = "images"
    /\ sync' = IF Cardinality(DOMAIN images) > 0
               THEN [sync EXCEPT !.pc = "script", !.post = TRUE]
               ELSE [sync EXCEPT !.pc = "helm"]
    /\ UNCHANGED <<charts, images, refCharts, refImages, releases, ret, prev>>

\* createImagePostRenderer: the image substitutions are listed again and the
\* script is written from that list, whatever it holds by now.  writeOK:
\* whether the script could be written.
createImagePostRenderer(writeOK) ==
    /\ sync.pc = "script"
    /\ IF writeOK
       THEN /\ \E order \in RangeOrders(images) :
                   sync' = [sync EXCEPT
                               !.pc = "helm",
                               !.script = ImageList(images, order),
                               !.args = @ \o <<"--post-renderer", PostRendererPath>>]
            /\ UNCHANGED <<ret, prev>>
       ELSE /\ Returns(SyncCall("failed to create post-renderer", NoList, NoArgs))
            /\ sync' = NoSync
    /\ UNCHANGED <<charts, images, refCharts, refImages, releases>>

\* runHelm: helm runs with the arguments and SyncRelease returns what it
\* returned; the script is removed on the way out.  helmOK: whether helm
\* exited 0.
runHelm(helmOK) ==
    /\ sync.pc = "helm"
    /\ Returns(SyncCall(IF helmOK THEN Nil ELSE ErrHelmFailed, sync.script, sync.args))
    /\ sync' = NoSync
    /\ UNCHANGED <<charts, images, refCharts, refImages, releases>>

InitReg ==
    /\ charts = EmptyMap
    /\ images = EmptyMap

InitSeq ==
    /\ releases = LoadedReleases
    /\ ret = NoCall
    /\ prev = Brief(NoCall)
    /\ refCharts = {}
    /\ refImages = {}
    /\ sync = NoSync

\* Chart references a caller may ask about: the registered ones and the
\* charts of the releases.
AskedCharts == ChartRefs \cup {LoadedReleases[i].Chart : i \in 1..Len(LoadedReleases)}

NextSeq ==
    \/ \E o \in ChartRefs, p \in LocalPaths : AddChartSubstitution(o, p)
    \/ \E o \in ImageRefs, r \in Replacements : AddImageSubstitution(o, r)
    \/ \E o \in ChartRefs : RemoveChartSubstitution(o)
    \/ \E o \in ImageRefs : RemoveImageSubstitution(o)
    \/ \E o \in AskedCharts : GetChartPath(o)
    \/ \E o \in ImageRefs : GetImageReplacement(o)
    \/ ListChartSubstitutions
    \/ ListImageSubstitutions
    \/ \E c \in AskedCharts : ApplyChartSubstitutions(c)
    \/ \E i \in ImageRefs : ApplyImageSubstitutions(i)

\* The arguments of the registry calls made beside a SyncRelease.
SyncCharts == {<<"repo", "a">>}
SyncPaths == {<<"good">>}
SyncImages == {"nginx", "pg"}
SyncReplacements == {"r1"}

\* A registry call of another goroutine: each runs under the registry's lock,
\* so as a whole between two steps of the executor.
SyncOther ==
    \/ \E o \in SyncCharts, p \in SyncPaths : AddChartSubstitution(o, p)
    \/ \E o \in SyncImages, r \in SyncReplacements : AddImageSubstitution(o, r)
    \/ \E o \in SyncCharts : RemoveChartSubstitution(o)
    \/ \E o \in SyncImages : RemoveImageSubstitution(o)
    \/ \E c \in SyncCharts : ApplyChartSubstitutions(c)
    \/ \E i \in SyncImages : ApplyImageSubstitutions(i)

NextSync ==
    \/ SyncOther /\ UNCHANGED sync
    \/ \E i \in 1..Len(LoadedReleases), cfg \in ExecConfigs : SyncRelease(i, cfg)
    \/ SyncReleaseImages
    \/ \E w \in BOOLEAN : createImagePostRenderer(w)
    \/ \E h \in BOOLEAN : runHelm(h)

----------------------------------------------------------------------------
(* Claims about the registry, checked under SpecSeq, and about the      *)
(* executor, checked under SpecSync                                     *)

AsPairs(m) == {<<k, m[k]>> : k \in DOMAIN m}

UniqueKeys(ref) == \A e, f \in ref : e[1] = f[1] => e = f

ListedCharts(list) == {<<list[i].Original, list[i].LocalPath>> : i \in 1..Len(list)}
ListedImages(list) == {<<list[i].Original, list[i].Replacement>> : i \in 1..Len(list)}

\* C1: after any sequence of add/remove calls, successful or failed, both maps
\* equal the reference registry (one pair per original, the last successful
\* add wins, a successful remove deletes), and ListCharts / ListImages return
\* exactly one entry per pair of it and nothing else.
C1_RegistryIsReferenceMap ==
    /\ AsPairs(charts) = refCharts
    /\ AsPairs(images) = refImages
    /\ UniqueKeys(refCharts) /\ UniqueKeys(refImages)
    /\ ret.op = "ListCharts" =>
           /\ ListedCharts(ret.list) = refCharts
           /\ Len(ret.list) = Cardinality(refCharts)
    /\ ret.op = "ListImages" =>
           /\ ListedImages(ret.list) = refImages
           /\ Len(ret.list) = Cardinality(refImages)

\* C1 witness: AddImage("pg", "r2") on a registry without images, then
\* ListImages returned exactly that one pair.
C1_Witness ==
    /\ prev.op = "AddImage"
    /\ ret.op = "ListImages"
    /\ ret.list = <<[Original |-> "pg", Replacement |-> "r2"]>>

\* The spec's notion of a valid chart directory: localPath names an existing
\* directory that holds the marker file.
IsChartDir(localPath) ==
    /\ [path |-> Abs(localPath), kind |-> "dir"] \in FSEntries
    /\ \E e \in FSEntries : e.path = Append(Abs(localPath), ChartYAML)

C2_AddThenResolve ==
    /\ (ret.op = "AddChart" /\ IsChartDir(ret.arg)) =>
           /\ ret.err = Nil
           /\ MapHas(charts, ret.original)
           /\ charts[ret.original] = Abs(ret.arg)
           /\ IsAbs(charts[ret.original])
    /\ (prev.op = "AddChart" /\ ret.op = "GetChartPath"
            /\ ret.original = prev.original) =>
           /\ ret.ok
           /\ ret.val = prev.val

\* A registered chart mapping changes only in AddChart / RemoveChart calls
\* for its own original.
C2_KeptUntilRewritten ==
    \A o \in ChartRefs :
        (MapHas(charts, o)
            /\ ~(ret'.op \in {"AddChart", "RemoveChart"} /\ ret'.original = o))
        => (MapHas(charts', o) /\ charts'[o] = charts[o])

\* C2: AddChart with an existing directory holding Chart.yaml succeeds and
\* stores the absolute path, overwriting a prior mapping; ResolveChart of that
\* original then returns found with that path, and the mapping stays until a
\* later AddChart or RemoveChart for the same original.
C2_ValidAddChartResolves == []C2_AddThenResolve /\ [][C2_KeptUntilRewritten]_vars

\* C2 witness: AddChart with a relative chart directory overwrote a different
\* mapping, and the path stored is the absolute one.
C2_Witness ==
    /\ ret.op = "AddChart"
    /\ ret.arg = <<"good">>
    /\ MapHas(ret.preCharts, ret.original)
    /\ ret.preCharts[ret.original] # charts[ret.original]
    /\ charts[ret.original] = <<Root, "w", "good">>

\* C3: AddChart with a localPath that does not exist or has no Chart.yaml in
\* it returns an error and leaves both maps exactly as they were.
C3_InvalidAddChartNoMutation ==
    (ret.op = "AddChart" /\ ~IsChartDir(ret.arg)) =>
        /\ ret.err # Nil
        /\ charts = ret.preCharts
        /\ images = ret.preImages

\* C3 witness: a rejected AddChart for an original that already had a mapping.
C3_Witness ==
    /\ ret.op = "AddChart"
    /\ ret.arg = <<"nochart">>
    /\ ret.err # Nil
    /\ MapHas(charts, ret.original)

RemovedExactly(pre, post, k) ==
    /\ DOMAIN post = (DOMAIN pre) \ {k}
    /\ \A x \in DOMAIN post : post[x] = pre[x]

\* C4: RemoveChart / RemoveImage of an unmapped key return the not-found
\* error and leave both maps unchanged; of a mapped key they delete exactly
\* that key and leave every other entry and the other map unchanged.
C4_RemoveFrame ==
    /\ ret.op = "RemoveChart" =>
           IF MapHas(ret.preCharts, ret.original)
           THEN /\ ret.err = Nil
                /\ RemovedExactly(ret.preCharts, charts, ret.original)
                /\ images = ret.preImages
           ELSE /\ ret.err = ErrChartNotFound
                /\ charts = ret.preCharts
                /\ images = ret.preImages
    /\ ret.op = "RemoveImage" =>
           IF MapHas(ret.preImages, ret.original)
           THEN /\ ret.err = Nil
                /\ RemovedExactly(ret.preImages, images, ret.original)
                /\ charts = ret.preCharts
           ELSE /\ ret.err = ErrImageNotFound
                /\ charts = ret.preCharts
                /\ images = ret.preImages

\* C4 witness: a successful RemoveImage that left another image mapping and a
\* chart mapping in place.
C4_Witness ==
    /\ ret.op = "RemoveImage"
    /\ ret.err = Nil
    /\ DOMAIN images # {}
    /\ DOMAIN charts # {}

\* C5: AddImage with an empty original or replacement fails and leaves the
\* registry unchanged, otherwise it stores the mapping; so every image
\* override held has a non-empty original and a non-empty replacement.
C5_ImageRefsNonEmpty ==
    /\ \A k \in DOMAIN images : k # "" /\ images[k] # ""
    /\ ret.op = "AddImage" =>
           IF ret.original = "" \/ ret.arg = ""
           THEN /\ ret.err # Nil
                /\ charts = ret.preCharts
                /\ images = ret.preImages
           ELSE /\ ret.err = Nil
                /\ MapHas(images, ret.original)
                /\ images[ret.original] = ret.arg

\* C5 witness: AddImage with an empty replacement for a mapped original was
\* rejected.
C5_Witness ==
    /\ ret.op = "AddImage"
    /\ ret.arg = ""
    /\ ret.err = ErrEmptyImageRef
    /\ MapHas(images, ret.original)

C6_RemoveAfterAdd ==
    /\ (prev.op = "AddChart" /\ ret.op = "RemoveChart"
            /\ ret.original = prev.original) =>
           ret.err = Nil /\ ~MapHas(charts, ret.original)
    /\ (prev.op = "AddImage" /\ ret.op = "RemoveImage"
            /\ ret.original = prev.original) =>
           ret.err = Nil /\ ~MapHas(images, ret.original)

C6_ResolveAfterRemove ==
    /\ (prev.op = "AddChart" /\ ret.op = "RemoveChart"
            /\ ret.original = prev.original
            /\ ret'.op = "GetChartPath" /\ ret'.original = ret.original) =>
           ~ret'.ok
    /\ (prev.op = "AddImage" /\ ret.op = "RemoveImage"
            /\ ret.original = prev.original
            /\ ret'.op = "GetImageReplacement" /\ ret'.original = ret.original) =>
           ~ret'.ok

\* C6: AddChart(o, p), RemoveChart(o), ResolveChart(o) in a row ends in
\* not-found, and likewise for images, whatever o was mapped to before.
C6_AddRemoveResolve == []C6_RemoveAfterAdd /\ [][C6_ResolveAfterRemove]_vars

\* C6 witness: RemoveChart(o) right after a successful AddChart(o, p) that
\* had overwritten an older mapping of o.
C6_Witness ==
    /\ prev.op = "AddChart"
    /\ ret.op = "RemoveChart"
    /\ ret.original = prev.original
    /\ ret.preCharts[ret.original] = prev.val
    /\ prev.val = <<Root, "w", "other">>

\* A step of the SyncRelease call in progress.
SyncSteps == sync' # sync

\* C9: ApplyChartSubstitutions / ApplyImageSubstitutions return (override,
\* true) when the reference is mapped at that moment and (reference, false)
\* otherwise, and change neither map.  SyncRelease looks the chart of its
\* release up once: the helm arguments it builds name the override mapped at
\* that moment, the release's own chart when there is none, and helm is run
\* with that chart; no step of SyncRelease changes the registry or the
\* releases, and it returns for the release it was given.
C9_OverridesAppliedAtUse ==
    /\ [](ret.op = "ApplyChart" =>
              /\ IF MapHas(charts, ret.original)
                 THEN ret.ok /\ ret.val = charts[ret.original]
                 ELSE ~ret.ok /\ ret.val = ret.original
              /\ charts = ret.preCharts /\ images = ret.preImages)
    /\ [](ret.op = "ApplyImage" =>
              /\ IF MapHas(images, ret.original)
                 THEN ret.ok /\ ret.val = images[ret.original]
                 ELSE ~ret.ok /\ ret.val = ret.original
              /\ charts = ret.preCharts /\ images = ret.preImages)
    /\ [][SyncSteps =>
             /\ charts' = charts /\ images' = images /\ releases' = releases
             /\ sync.pc = "idle" =>
                    LET release == releases[sync'.i] IN
                    sync'.args[4] = (IF MapHas(charts, release.Chart)
                                     THEN charts[release.Chart] ELSE release.Chart)
             /\ (sync.pc # "idle" /\ sync'.pc # "idle") =>
                    sync'.i = sync.i /\ sync'.args[4] = sync.args[4]
             /\ sync'.pc = "idle" =>
                    /\ ret'.op = "SyncRelease"
                    /\ ret'.arg = releases[sync.i].Name
                    /\ ret'.original = releases[sync.i].Chart
                    /\ ret'.preReleases = releases
                    /\ ret'.helm # NoArgs => ret'.helm[4] = sync.args[4]]_vars

\* C9 witness: a SyncRelease of release "web" ran helm with the local chart
\* that was registered for repo/a when it began.
C9_Witness ==
    /\ ret.op = "SyncRelease"
    /\ ret.arg = "web"
    /\ ret.helm # NoArgs
    /\ MapHas(ret.preCharts, ret.original)
    /\ ret.helm[4] = <<Root, "w", "good">>

----------------------------------------------------------------------------
(* SpecConc: goroutines calling the registry concurrently.  A call begins  *)
(* (with its validation, which touches no shared state), takes Manager.mu, *)
(* runs its body under the lock, and releases the lock as it returns.      *)

NumGoroutines == 2
MaxCalls == 3

Goroutines == 1..NumGoroutines

\* Arguments of the concurrent callers.
ConcChartRefs == {<<"repo", "a">>}
ConcPaths == {<<"good">>, <<".", "other">>, <<"nochart">>}
ConcImageRefs == {"nginx", "pg"}
ConcReplacements == {"r1", "r2"}

WriterOps == {"AddChart", "AddImage", "RemoveChart", "RemoveImage"}
GetOps == {"GetChartPath", "GetImageReplacement"}
ListOps == {"ListCharts", "ListImages"}
ChartOps == {"AddChart", "RemoveChart", "GetChartPath", "ListCharts"}

Idle ==
    [pc |-> "idle", op |-> None, original |-> "", arg |-> "", visited |-> {},
     result |-> <<>>, val |-> "", ok |-> FALSE, err |-> Nil]

InCall(op, original, arg) ==
    [pc |-> "lock", op |-> op, original |-> original, arg |-> arg,
     visited |-> {}, result |-> <<>>, val |-> "", ok |-> FALSE, err |-> Nil]

\* The map a call works on.
MapOf(op) == IF op \in ChartOps THEN charts ELSE images

\* sync.RWMutex, as the registry uses it: Lock announces the writer and then
\* waits for the readers inside to leave; RLock waits while a writer has
\* announced itself or holds the lock.
CanLock(m) == m.writer = {}

\* A Lock that does not wait for the readers inside.
ReadersIgnored(m) == TRUE

ReadersDrained(m) == m.readers = {}

\* An RLock that does not wait for the writer.
CanRLockAlways(m) == TRUE

CanRLock(m) == m.writer = {}

\* Another goroutine is in the middle of writing the map that `op` works on.
WriteInProgress(g, op) ==
    \E h \in Goroutines \ {g} :
        gor[h].pc = "writing" /\ (gor[h].op \in ChartOps) = (op \in ChartOps)

Begin(g, c) ==
    /\ gor[g].pc = "idle"
    /\ calls < MaxCalls
    /\ calls' = calls + 1
    /\ gor' = [gor EXCEPT ![g] = c]
    /\ UNCHANGED <<charts, images, mu, completed, panicked>>

\* A call rejected by its validation is about to return its error, without
\* having touched the lock.
Rejected(op, original, arg, err) ==
    [pc |-> "rejected", op |-> op, original |-> original, arg |-> arg,
     visited |-> {}, result |-> <<>>, val |-> "", ok |-> FALSE, err |-> err]

CallAddChart(g, original, localPath) ==
    LET v == ValidateChartPath(localPath) IN
    IF v.err # Nil THEN Begin(g, Rejected("AddChart", original, v.absPath, v.err))
    ELSE Begin(g, InCall("AddChart", original, v.absPath))

CallAddImage(g, original, replacement) ==
    LET err == ValidateImageRefs(original, replacement) IN
    IF err # Nil THEN Begin(g, Rejected("AddImage", original, replacement, err))
    ELSE Begin(g, InCall("AddImage", original, replacement))

CallRemoveChart(g, original) == Begin(g, InCall("RemoveChart", original, ""))

CallRemoveImage(g, original) == Begin(g, InCall("RemoveImage", original, ""))

CallGetChartPath(g, original) == Begin(g, InCall("GetChartPath", original, ""))

CallGetImageReplacement(g, original) ==
    Begin(g, InCall("GetImageReplacement", original, ""))

CallListCharts(g) == Begin(g, InCall("ListCharts", "", ""))

CallListImages(g) == Begin(g, InCall("ListImages", "", ""))

\* m.mu.Lock(): announce; the lock is held at once when no reader is inside.
MuLock(g) ==
    /\ gor[g].pc = "lock"
    /\ gor[g].op \in WriterOps
    /\ CanLock(mu)
    /\ mu' = [mu EXCEPT !.writer = {g}]
    /\ gor' = [gor EXCEPT ![g].pc = IF ReadersDrained(mu) THEN "locked" ELSE "drain"]
    /\ UNCHANGED <<charts, images, completed, calls, panicked>>

\* m.mu.Lock(), the wait for the readers to leave.
MuLockDrained(g) ==
    /\ gor[g].pc = "drain"
    /\ ReadersDrained(mu)
    /\ gor' = [gor EXCEPT ![g].pc = "locked"]
    /\ UNCHANGED <<charts, images, mu, completed, calls, panicked>>

\* m.mu.RLock()
MuRLock(g) ==
    /\ gor[g].pc = "lock"
    /\ gor[g].op \notin WriterOps
    /\ CanRLock(mu)
    /\ mu' = [mu EXCEPT !.readers = @ \cup {g}]
    /\ gor' = [gor EXCEPT ![g].pc = "locked"]
    /\ UNCHANGED <<charts, images, completed, calls, panicked>>

\* Remove*Substitution finding no mapping: nothing is written.
RemoveMissing(g) ==
    /\ gor[g].pc = "locked"
    /\ gor[g].op \in {"RemoveChart", "RemoveImage"}
    /\ ~MapHas(MapOf(gor[g].op), gor[g].original)
    /\ panicked' = (panicked \/ WriteInProgress(g, gor[g].op))
    /\ gor' = [gor EXCEPT ![g].pc = "unlock",
                          ![g].err = IF gor[g].op = "RemoveChart"
                                     THEN ErrChartNotFound ELSE ErrImageNotFound]
    /\ UNCHANGED <<charts, images, mu, completed, calls>>

\* The map assignment or delete starts: the runtime marks the map as being
\* written.
WriteBegin(g) ==
    /\ gor[g].pc = "locked"
    /\ gor[g].op \in WriterOps
    /\ gor[g].op \in {"RemoveChart", "RemoveImage"} =>
           MapHas(MapOf(gor[g].op), gor[g].original)
    /\ panicked' = (panicked \/ WriteInProgress(g, gor[g].op))
    /\ gor' = [gor EXCEPT ![g].pc = "writing"]
    /\ UNCHANGED <<charts, images, mu, completed, calls>>

\* The map assignment or delete takes effect.
WriteEnd(g) ==
    LET c == gor[g] IN
    /\ c.pc = "writing"
    /\ charts' = IF c.op = "AddChart" THEN MapSet(charts, c.original, c.arg)
                 ELSE IF c.op = "RemoveChart" THEN MapDelete(charts, c.original)
                 ELSE charts
    /\ images' = IF c.op = "AddImage" THEN MapSet(images, c.original, c.arg)
                 ELSE IF c.op = "RemoveImage" THEN MapDelete(images, c.original)
                 ELSE images
    /\ gor' = [gor EXCEPT ![g].pc = "unlock"]
    /\ UNCHANGED <<mu, completed, calls, panicked>>

\* GetChartPath / GetImageReplacement: the map lookup.
Lookup(g) ==
    LET c == gor[g]
        r == IF c.op = "GetChartPath" THEN MapGet(charts, c.original, EmptyPath)
             ELSE MapGet(images, c.original, "")
    IN
    /\ c.pc = "locked"
    /\ c.op \in GetOps
    /\ panicked' = (panicked \/ WriteInProgress(g, c.op))
    /\ gor' = [gor EXCEPT ![g].pc = "unlock", ![g].val = r.val, ![g].ok = r.ok]
    /\ UNCHANGED <<charts, images, mu, completed, calls>>

\* List*Substitutions: one iteration of the range loop, on a key of the map
\* not visited yet.
RangeStep(g) ==
    LET c == gor[g]
        m == MapOf(c.op)
    IN
    /\ c.pc = "locked"
    /\ c.op \in ListOps
    /\ \E k \in (DOMAIN m) \ c.visited :
           /\ gor' = [gor EXCEPT
                  ![g].visited = @ \cup {k},
                  ![g].result = IF c.op = "ListCharts"
                                THEN c.result \o ChartList(m, <<k>>)
                                ELSE c.result \o ImageList(m, <<k>>)]
           /\ panicked' = (panicked \/ WriteInProgress(g, c.op))
    /\ UNCHANGED <<charts, images, mu, completed, calls>>

\* List*Substitutions: the range loop ends when no key is left to visit.
RangeDone(g) ==
    LET c == gor[g] IN
    /\ c.pc = "locked"
    /\ c.op \in ListOps
    /\ (DOMAIN MapOf(c.op)) \ c.visited = {}
    /\ panicked' = (panicked \/ WriteInProgress(g, c.op))
    /\ gor' = [gor EXCEPT ![g].pc = "unlock"]
    /\ UNCHANGED <<charts, images, mu, completed, calls>>

\* Return that leaves the lock held when the call returns an error.
ReturnLockedOnError(g) ==
    LET c == gor[g] IN
    /\ c.pc = "unlock"
    /\ mu' = IF c.err # Nil THEN mu
             ELSE IF c.op \in WriterOps
             THEN [mu EXCEPT !.writer = {}]
             ELSE [mu EXCEPT !.readers = @ \ {g}]
    /\ completed' = IF c.op = "AddImage"
                    THEN completed \cup {<<c.original, c.arg>>}
                    ELSE completed
    /\ gor' = [gor EXCEPT ![g] = Idle]
    /\ UNCHANGED <<charts, images, calls, panicked>>

\* The deferred Unlock / RUnlock, and the return to the caller.
Return(g) ==
    LET c == gor[g] IN
    /\ c.pc = "unlock"
    /\ mu' = IF c.op \in WriterOps
             THEN [mu EXCEPT !.writer = {}]
             ELSE [mu EXCEPT !.readers = @ \ {g}]
    /\ completed' = IF c.op = "AddImage"
                    THEN completed \cup {<<c.original, c.arg>>}
                    ELSE completed
    /\ gor' = [gor EXCEPT ![g] = Idle]
    /\ UNCHANGED <<charts, images, calls, panicked>>

\* The return of a call that its validation rejected.
ReturnRejected(g) ==
    /\ gor[g].pc = "rejected"
    /\ gor' = [gor EXCEPT ![g] = Idle]
    /\ UNCHANGED <<charts, images, mu, completed, calls, panicked>>

InitConc ==
    /\ mu = [writer |-> {}, readers |-> {}]
    /\ gor = [g \in Goroutines |-> Idle]
    /\ completed = {}
    /\ calls = 0
    /\ panicked = FALSE

NextConc ==
    \E g \in Goroutines :
        \/ \E o \in ConcChartRefs, p \in ConcPaths : CallAddChart(g, o, p)
        \/ \E o \in ConcImageRefs, r \in ConcReplacements : CallAddImage(g, o, r)
        \/ \E o \in ConcChartRefs : CallRemoveChart(g, o)
        \/ \E o \in ConcImageRefs : CallRemoveImage(g, o)
        \/ \E o \in ConcChartRefs : CallGetChartPath(g, o)
        \/ \E o \in ConcImageRefs : CallGetImageReplacement(g, o)
        \/ CallListCharts(g)
        \/ CallListImages(g)
        \/ MuLock(g)
        \/ MuLockDrained(g)
        \/ MuRLock(g)
        \/ RemoveMissing(g)
        \/ WriteBegin(g)
        \/ WriteEnd(g)
        \/ Lookup(g)
        \/ RangeStep(g)
        \/ RangeDone(g)
        \/ Return(g)
        \/ ReturnRejected(g)

\* The calls on the image map only, one of them rejected by its
\* validation: the goroutines take the same steps as in NextConc.
FairImageRefs == {"", "nginx"}
FairReplacements == {"r1"}

NextConcImages ==
    \E g \in Goroutines :
        \/ \E o \in FairImageRefs, r \in FairReplacements : CallAddImage(g, o, r)
        \/ \E o \in FairImageRefs : CallRemoveImage(g, o)
        \/ \E o \in FairImageRefs : CallGetImageReplacement(g, o)
        \/ CallListImages(g)
        \/ MuLock(g)
        \/ MuLockDrained(g)
        \/ MuRLock(g)
        \/ RemoveMissing(g)
        \/ WriteBegin(g)
        \/ WriteEnd(g)
        \/ Lookup(g)
        \/ RangeStep(g)
        \/ RangeDone(g)
        \/ Return(g)
        \/ ReturnRejected(g)

\* The goroutine of a call in progress is scheduled, and sync.RWMutex
\* lets no goroutine that waits for it starve.
CallSteps(g) ==
    /\ \/ MuLock(g)
       \/ MuLockDrained(g)
       \/ MuRLock(g)
       \/ RemoveMissing(g)
       \/ WriteBegin(g)
       \/ WriteEnd(g)
       \/ Lookup(g)
       \/ RangeStep(g)
       \/ RangeDone(g)
       \/ Return(g)
       \/ ReturnRejected(g)
    /\ UNCHANGED seqVars /\ UNCHANGED detVars
    /\ UNCHANGED <<pidFile, alive, port, dmn, cli, resp, client, lst, req>>
\* Where the calls stand: every step of a call changes it.
CallProgress ==
    <<mu, [g \in Goroutines |-> <<gor[g].pc, Cardinality(gor[g].visited)>>]>>
CallStepsFairness == \A g \in Goroutines : SF_CallProgress(CallSteps(g))

----------------------------------------------------------------------------
(* The drift detector (pkg/drift).  Each critical section under            *)
(* Detector.mu is one step, and so is each call of a collaborator (helm    *)
(* diff, Notifier.Notify, healFunc); the steps between them are separate.  *)

NumCallers == 2
MaxDetCalls == 3
MaxDiffLen == 2000

Callers == 1..NumCallers

ErrAlreadyRunning == "detector already running"
ErrNotRunning == "detector not running"
ErrHelmDiff == "helm diff failed"

\* The nil context of a detector that was never started.
NilCtx == 0

DriftTypeConfiguration == "configuration"
SeverityLow == "low"
SeverityMedium == "medium"
SeverityHigh == "high"
DetailsDetected == "Configuration drift detected"
DetailsHealed == "Configuration drift detected and auto-healed"

\* A release as the detector reads it.  Installed is a *bool: nil, or a
\* pointer to true or false.
DetRelease(name, namespace, installed) ==
    [Name |-> name, Namespace |-> namespace, Installed |-> installed]

\* helmstate.Manager as the detector holds it: a nil *Manager, or one with
\* the releases of its Spec.
NilManager == [isNil |-> TRUE, Releases |-> <<>>]
ManagerOf(rels) == [isNil |-> FALSE, Releases |-> rels]

\* The manager of the drift command: one release, installed by default.
CommandManager == ManagerOf(<<DetRelease("nginx", "web", Nil)>>)

\* The managers a detector is constructed with.
Managers ==
    { NilManager,
      ManagerOf(<<>>),
      ManagerOf(<<DetRelease("nginx", "web", Nil),
                  DetRelease("db", "", "true")>>),
      ManagerOf(<<DetRelease("old", "web", "false"),
                  DetRelease("nginx", "web", "true")>>) }

GetReleases(m) == m.Releases

\* IsReleaseInstalled without the nil default: an absent flag counts as
\* not installed.
IsReleaseInstalledNoDefault(release) == release.Installed = "true"

IsReleaseInstalled(release) ==
    IF release.Installed = Nil THEN TRUE ELSE release.Installed = "true"

\* One run of "helm diff upgrade": its exit code and the length of what it
\* wrote to stdout.  A diff text is represented by its length in bytes.
HelmRun(exit, out) == [exit |-> exit, out |-> out]

HelmRuns == {HelmRun(0, 0), HelmRun(2, 0), HelmRun(2, 50), HelmRun(1, 0)}

\* DiffRelease: exit code 2 returns stdout, exit code 0 the empty string,
\* any other exit code an error.
DiffRelease(run) ==
    IF run.exit = 0 THEN [diff |-> 0, err |-> Nil]
    ELSE IF run.exit = 2 THEN [diff |-> run.out, err |-> Nil]
    ELSE [diff |-> 0, err |-> ErrHelmDiff]

classifyDrift(diff) == DriftTypeConfiguration

\* calculateSeverity with the comparisons of the thresholds made inclusive.
calculateSeverityInclusive(diffLen) ==
    IF diffLen >= 1000 THEN SeverityHigh
    ELSE IF diffLen >= 100 THEN SeverityMedium
    ELSE SeverityLow

calculateSeverity(diffLen) ==
    IF diffLen > 1000 THEN SeverityHigh
    ELSE IF diffLen > 100 THEN SeverityMedium
    ELSE SeverityLow

\* checkReleaseDrift after the diff has run: nil (the empty sequence) on an
\* error or an empty diff, else a pointer to the report (a sequence of one).
\* The timestamp of the report is left out.
checkReleaseDrift(release, res) ==
    IF res.err # Nil THEN <<>>
    ELSE IF res.diff = 0 THEN <<>>
    ELSE << [ReleaseName |-> release.Name,
             Namespace |-> release.Namespace,
             DriftType |-> classifyDrift(res.diff),
             Severity |-> calculateSeverity(res.diff),
             Details |-> DetailsDetected,
             Diff |-> res.diff,
             Healed |-> FALSE] >>

\* HealedReport that leaves the details of the detection.
HealedReportSameDetails(rep) == [rep EXCEPT !.Healed = TRUE]

\* handleDriftReport after a successful heal: the report re-dispatched.
HealedReport(rep) == [rep EXCEPT !.Healed = TRUE, !.Details = DetailsHealed]

\* The notifiers there are to register, each an object of an
\* implementation.  The stdout notifier never fails; the webhook notifier
\* can.
NotifierOf(n, kind) == [id |-> n, kind |-> kind]
Notifiers == {NotifierOf(1, "stdout"), NotifierOf(2, "webhook")}
NotifyErrs(kind) == IF kind = "webhook" THEN {FALSE, TRUE} ELSE {FALSE}

\* What EnableAutoHeal is called with: off, on without a function (as the
\* daemon does), on with a function that syncs the release.
AutoHealArgs == {<<FALSE, Nil>>, <<TRUE, Nil>>, <<TRUE, "sync">>}

\* What handleDriftReport copies under the read lock.
Snapshot(ns, ah, hf) == [notifiers |-> ns, autoHeal |-> ah, healFunc |-> hf]
NoSnapshot == Snapshot(<<>>, FALSE, Nil)

\* What a check did, in order.  A "diff" of a release: the diff returned,
\* the report made of it, whether DiffRelease failed, and the number of
\* notifiers the report is due to (those registered when handleDriftReport
\* copied them).  A diff without a report is recorded when DiffRelease has
\* returned, one with a report when handleDriftReport has taken its copy.  A
\* "notify": the notifier called, the report passed, whether Notify failed.
\* A "heal": the report in hand, whether healFunc failed.
Event(ev, unit, to, diff, rep, err) ==
    [ev |-> ev, unit |-> unit, to |-> to, diff |-> diff, rep |-> rep,
     err |-> err]

\* A run goroutine: where it stands, whether a tick waits in ticker.C, the
\* slice of releases its latest check took from the manager (rels), the
\* release in hand (i), the report in hand, the snapshot and the notifier
\* in hand (k), and as history the Start that launched it, what its latest
\* check was begun by ("start" or "tick") and the events of that check.
NewLoop(s) ==
    [pc |-> "initial", tick |-> FALSE, start |-> s, by |-> None, rels |-> <<>>,
     i |-> 0, k |-> 0, rep |-> <<>>, snap |-> NoSnapshot, log |-> <<>>]

\* Nothing was started and nothing stopped.
NoHistory == [started |-> 0, stopped |-> 0]

\* A caller's record: the number n of its latest call among all detector
\* calls, the method, where the call stands, and the error it returned.
CallerIdle(n, op, err) == [call |-> n, pc |-> "idle", op |-> op, err |-> err]
CallerAt(n, pc, op) == [call |-> n, pc |-> pc, op |-> op, err |-> Nil]

\* ctx.Done() of a context derived from the one passed to Start.
CtxDone(c) == c \in cancelled \/ parentDone

\* A call begins: it is made by the first caller that is free.
BeginDetCall(c) ==
    /\ callers[c].pc = "idle"
    /\ \A b \in Callers : b < c => callers[b].pc # "idle"
    /\ dcalls < MaxDetCalls
    /\ dcalls' = dcalls + 1

\* AddNotifier: append under the lock.  Each notifier is registered once.
AddNotifier(n) ==
    /\ \A j \in 1..Len(notifiers) : notifiers[j] # n
    /\ notifiers' = Append(notifiers, n)
    /\ UNCHANGED <<dManager, autoHeal, healFunc, dLife, loops, callers, dcalls,
                   hist, checked>>

\* EnableAutoHeal: set both fields under the lock.
EnableAutoHeal(enable, fn) ==
    /\ <<autoHeal, healFunc>> # <<enable, fn>>
    /\ autoHeal' = enable
    /\ healFunc' = fn
    /\ UNCHANGED <<dManager, notifiers, dLife, loops, callers, dcalls, hist,
                   checked>>

\* The release lists a helmfile on disk can hold when it is loaded again.
ReloadedReleases == {m.Releases : m \in Managers \ {NilManager}}

\* Manager.Load, as handleReload calls it on the manager the detector was
\* built with: the helmfile is parsed and m.Spec replaced, without a lock.
\* The run goroutine reads m.Spec in GetReleases; it finds the old or the
\* new Spec there, which is this step before or after that read.
ManagerLoad(rels) ==
    /\ ~dManager.isNil
    /\ GetReleases(dManager) # rels
    /\ dManager' = ManagerOf(rels)
    /\ UNCHANGED <<notifiers, autoHeal, healFunc, dLife, loops, callers, dcalls,
                   hist, checked>>

\* DetStart without the check of the running flag.
DetStartUnchecked(c) ==
    /\ BeginDetCall(c)
    /\ ctxs' = ctxs + 1
    /\ dCtx' = ctxs + 1
    /\ dCancel' = ctxs + 1
    /\ dRunning' = TRUE
    /\ hist' = [hist EXCEPT !.started = dcalls']
    /\ callers' = [callers EXCEPT ![c] = CallerAt(dcalls', "spawn", "Start")]
    /\ UNCHANGED <<cancelled, parentDone, wg, loops, dConf, checked>>

\* DetStart that keeps the context of the previous Start.
DetStartKeepsContext(c) ==
    /\ BeginDetCall(c)
    /\ IF dRunning
       THEN /\ callers' = [callers EXCEPT ![c] = CallerIdle(dcalls', "Start", ErrAlreadyRunning)]
            /\ UNCHANGED <<dRunning, dCtx, dCancel, ctxs, hist>>
       ELSE /\ ctxs' = ctxs + 1
            /\ dCtx' = IF dCtx = NilCtx THEN ctxs + 1 ELSE dCtx
            /\ dCancel' = IF dCancel = NilCtx THEN ctxs + 1 ELSE dCancel
            /\ dRunning' = TRUE
            /\ hist' = [hist EXCEPT !.started = dcalls']
            /\ callers' = [callers EXCEPT ![c] = CallerAt(dcalls', "spawn", "Start")]
    /\ UNCHANGED <<cancelled, parentDone, wg, loops, dConf, checked>>

\* Start, first part: under the lock, refuse when running, else make the
\* context and set running.
DetStart(c) ==
    /\ BeginDetCall(c)
    /\ IF dRunning
       THEN /\ callers' = [callers EXCEPT ![c] = CallerIdle(dcalls', "Start", ErrAlreadyRunning)]
            /\ UNCHANGED <<dRunning, dCtx, dCancel, ctxs, hist>>
       ELSE /\ ctxs' = ctxs + 1
            /\ dCtx' = ctxs + 1
            /\ dCancel' = ctxs + 1
            /\ dRunning' = TRUE
            /\ hist' = [hist EXCEPT !.started = dcalls']
            /\ callers' = [callers EXCEPT ![c] = CallerAt(dcalls', "spawn", "Start")]
    /\ UNCHANGED <<cancelled, parentDone, wg, loops, dConf, checked>>

\* Start, second part: d.wg.Add(1); go d.run(); return nil.  The loop is
\* the one of the latest Start that passed the first part.
DetStartSpawn(c) ==
    /\ callers[c].pc = "spawn"
    /\ wg' = wg + 1
    /\ loops' = Append(loops, NewLoop(callers[c].call))
    /\ callers' = [callers EXCEPT ![c].pc = "idle"]
    /\ UNCHANGED <<dRunning, dCtx, dCancel, ctxs, cancelled, parentDone, dcalls,
                   dConf, hist, checked>>

\* DetStop without the check of the running flag.
DetStopUnchecked(c) ==
    /\ BeginDetCall(c)
    /\ callers' = [callers EXCEPT ![c] = CallerAt(dcalls', "cancel", "Stop")]
    /\ UNCHANGED <<dLife, loops, dConf, hist, checked>>

\* Stop, first part: under the lock, refuse when not running.
DetStop(c) ==
    /\ BeginDetCall(c)
    /\ callers' = [callers EXCEPT ![c] =
           IF dRunning THEN CallerAt(dcalls', "cancel", "Stop")
           ELSE CallerIdle(dcalls', "Stop", ErrNotRunning)]
    /\ UNCHANGED <<dLife, loops, dConf, hist, checked>>

\* Stop: d.cancel()
DetStopCancel(c) ==
    /\ callers[c].pc = "cancel"
    /\ cancelled' = cancelled \cup {dCancel}
    /\ callers' = [callers EXCEPT ![c].pc = "wait"]
    /\ UNCHANGED <<dRunning, dCtx, dCancel, ctxs, parentDone, wg, loops, dcalls,
                   dConf, hist, checked>>

\* Stop: d.wg.Wait() returns once the counter is zero.
DetStopWaited(c) ==
    /\ callers[c].pc = "wait"
    /\ wg = 0
    /\ callers' = [callers EXCEPT ![c].pc = "clear"]
    /\ UNCHANGED <<dLife, loops, dcalls, dConf, hist, checked>>

\* Stop, last part: under the lock, running = false; return nil.
DetStopClear(c) ==
    /\ callers[c].pc = "clear"
    /\ dRunning' = FALSE
    /\ hist' = [hist EXCEPT !.stopped = dcalls]
    /\ callers' = [callers EXCEPT ![c].pc = "idle"]
    /\ UNCHANGED <<dCtx, dCancel, ctxs, cancelled, parentDone, wg, loops, dcalls,
                   dConf, checked>>

\* The first release at or after position j that is installed; past the end
\* when there is none.
RECURSIVE FirstInstalled(_, _)
FirstInstalled(rels, j) ==
    IF j > Len(rels) THEN j
    ELSE IF IsReleaseInstalled(rels[j]) THEN j
    ELSE FirstInstalled(rels, j + 1)

\* checkDrift's loop moves to the release at or after position j: on to its
\* diff, or back to run's select when none is left.
AtRelease(lp, j) ==
    LET rels == lp.rels
        n == FirstInstalled(rels, j) IN
    IF n > Len(rels)
    THEN [lp EXCEPT !.pc = "select", !.i = 0, !.k = 0, !.rep = <<>>,
                    !.snap = NoSnapshot]
    ELSE [lp EXCEPT !.pc = "diff", !.i = n, !.k = 0, !.rep = <<>>,
                    !.snap = NoSnapshot]

\* checkDrift from its first line: return at once without a manager or
\* without releases, else go to the first release.  The releases are read
\* from the manager once, here.
checkDrift(lp, by) ==
    LET taken == IF dManager.isNil THEN <<>> ELSE GetReleases(dManager)
        began == [lp EXCEPT !.by = by, !.log = <<>>, !.rels = taken] IN
    IF dManager.isNil THEN [began EXCEPT !.pc = "select"]
    ELSE IF Len(taken) = 0 THEN [began EXCEPT !.pc = "select"]
    ELSE AtRelease(began, 1)

\* AfterNotify without the check that a function is set.
AfterNotifyNoNilCheck(lp) ==
    IF lp.pc = "notify" /\ lp.snap.autoHeal
    THEN [lp EXCEPT !.pc = "heal", !.k = 0]
    ELSE AtRelease(lp, lp.i + 1)

\* handleDriftReport after a round of Notify calls: to healFunc after the
\* first round when auto-heal is on and a function is set, else done.
AfterNotify(lp) ==
    IF lp.pc = "notify" /\ lp.snap.autoHeal /\ lp.snap.healFunc # Nil
    THEN [lp EXCEPT !.pc = "heal", !.k = 0]
    ELSE AtRelease(lp, lp.i + 1)

\* A round of Notify calls begins: at the first notifier of the snapshot,
\* if there is one.
NotifyRound(lp, pc) ==
    IF Len(lp.snap.notifiers) = 0 THEN AfterNotify([lp EXCEPT !.pc = pc])
    ELSE [lp EXCEPT !.pc = pc, !.k = 1]

\* NotifyCall that ends the round at the first Notify that fails.
NotifyCallStopsOnError(lp, err) ==
    LET n == lp.snap.notifiers[lp.k]
        logged == [lp EXCEPT !.log = Append(@,
                       Event("notify", lp.rep[1].ReleaseName, n.id, 0, lp.rep, err))] IN
    IF lp.k < Len(lp.snap.notifiers) /\ ~err THEN [logged EXCEPT !.k = @ + 1]
    ELSE AfterNotify(logged)

\* One Notify call of the round in progress, with its outcome.
NotifyCall(lp, err) ==
    LET n == lp.snap.notifiers[lp.k]
        logged == [lp EXCEPT !.log = Append(@,
                       Event("notify", lp.rep[1].ReleaseName, n.id, 0, lp.rep, err))] IN
    IF lp.k < Len(lp.snap.notifiers) THEN [logged EXCEPT !.k = @ + 1]
    ELSE AfterNotify(logged)

LoopVars == <<dLife, dConf, callers, dcalls, hist, checked>>

\* RunInitialCheck that waits for the first tick and takes it.
RunInitialCheckOnTick(l) ==
    /\ loops[l].pc = "initial"
    /\ loops[l].tick
    /\ loops' = [loops EXCEPT ![l] = checkDrift([loops[l] EXCEPT !.tick = FALSE], "start")]
    /\ UNCHANGED LoopVars

\* run: the initial checkDrift, before the first select.
RunInitialCheck(l) ==
    /\ loops[l].pc = "initial"
    /\ loops' = [loops EXCEPT ![l] = checkDrift(loops[l], "start")]
    /\ UNCHANGED LoopVars

\* The ticker's interval expires: the tick goes into ticker.C (capacity
\* one), or is dropped when the previous one still waits there.
TickerFires(l) ==
    /\ loops[l].pc # "exited"
    /\ loops' = [loops EXCEPT ![l].tick = TRUE]
    /\ UNCHANGED LoopVars

\* RunTickCheck that takes no tick once a call of the latest check failed.
RunTickCheckAfterCleanCheck(l) ==
    /\ loops[l].pc = "select"
    /\ loops[l].tick
    /\ \A e \in 1..Len(loops[l].log) : ~loops[l].log[e].err
    /\ loops' = [loops EXCEPT ![l] = checkDrift([loops[l] EXCEPT !.tick = FALSE], "tick")]
    /\ UNCHANGED LoopVars

\* run: select takes the tick and runs checkDrift.
RunTickCheck(l) ==
    /\ loops[l].pc = "select"
    /\ loops[l].tick
    /\ loops' = [loops EXCEPT ![l] = checkDrift([loops[l] EXCEPT !.tick = FALSE], "tick")]
    /\ UNCHANGED LoopVars

\* RunDiff that returns from checkDrift when DiffRelease fails.
RunDiffAbortsOnError(l, run) ==
    LET lp == loops[l]
        release == lp.rels[lp.i]
        res == DiffRelease(run)
        report == checkReleaseDrift(release, res)
        logged == [lp EXCEPT !.log = Append(@,
                       Event("diff", release.Name, 0, res.diff, report,
                             res.err # Nil))] IN
    /\ lp.pc = "diff"
    /\ loops' = [loops EXCEPT ![l] =
           IF res.err # Nil THEN AtRelease(logged, Len(lp.rels) + 1)
           ELSE IF report = <<>> THEN AtRelease(logged, lp.i + 1)
           ELSE [lp EXCEPT !.pc = "report", !.rep = report]]
    /\ UNCHANGED LoopVars

\* checkReleaseDrift: helm diff runs for the release in hand and has
\* returned.  Without a report checkDrift goes on to the next release, with
\* one it calls handleDriftReport.
RunDiff(l, run) ==
    LET lp == loops[l]
        release == lp.rels[lp.i]
        res == DiffRelease(run)
        report == checkReleaseDrift(release, res)
        logged == [lp EXCEPT !.log = Append(@,
                       Event("diff", release.Name, 0, res.diff, report,
                             res.err # Nil))] IN
    /\ lp.pc = "diff"
    /\ loops' = [loops EXCEPT ![l] =
           IF report = <<>> THEN AtRelease(logged, lp.i + 1)
           ELSE [lp EXCEPT !.pc = "report", !.rep = report]]
    /\ UNCHANGED LoopVars

\* handleDriftReport, first part: under the read lock, copy the notifiers,
\* autoHeal and healFunc; the first round of Notify calls begins.
handleDriftReport(l) ==
    LET lp == loops[l]
        logged == [lp EXCEPT !.log = Append(@,
                       Event("diff", lp.rep[1].ReleaseName, Len(notifiers),
                             lp.rep[1].Diff, lp.rep, FALSE))] IN
    /\ lp.pc = "report"
    /\ loops' = [loops EXCEPT ![l] =
           NotifyRound([logged EXCEPT
                            !.snap = Snapshot(notifiers, autoHeal, healFunc)],
                       "notify")]
    /\ UNCHANGED LoopVars

\* handleDriftReport: one Notify call of the detection report.
RunNotify(l, err) ==
    /\ loops[l].pc = "notify"
    /\ err \in NotifyErrs(loops[l].snap.notifiers[loops[l].k].kind)
    /\ loops' = [loops EXCEPT ![l] = NotifyCall(loops[l], err)]
    /\ UNCHANGED LoopVars

\* RunHeal that re-dispatches whatever healFunc returned.
RunHealAlwaysRenotifies(l, err) ==
    LET lp == loops[l]
        logged == [lp EXCEPT !.log = Append(@,
                       Event("heal", lp.rep[1].ReleaseName, 0, 0, lp.rep, err))] IN
    /\ lp.pc = "heal"
    /\ loops' = [loops EXCEPT ![l] =
           NotifyRound([logged EXCEPT !.rep = <<HealedReport(lp.rep[1])>>],
                       "renotify")]
    /\ UNCHANGED LoopVars

\* handleDriftReport: healFunc is called with the release name; on success
\* the report is marked healed and a second round of Notify calls begins.
RunHeal(l, err) ==
    LET lp == loops[l]
        logged == [lp EXCEPT !.log = Append(@,
                       Event("heal", lp.rep[1].ReleaseName, 0, 0, lp.rep, err))] IN
    /\ lp.pc = "heal"
    /\ loops' = [loops EXCEPT ![l] =
           IF err THEN AtRelease(logged, lp.i + 1)
           ELSE NotifyRound([logged EXCEPT !.rep = <<HealedReport(lp.rep[1])>>],
                            "renotify")]
    /\ UNCHANGED LoopVars

\* RunRenotify that reads d.notifiers anew instead of the copy.
RunRenotifyLive(l, err) ==
    LET lp == [loops[l] EXCEPT !.snap.notifiers = notifiers] IN
    /\ loops[l].pc = "renotify"
    /\ err \in NotifyErrs(lp.snap.notifiers[lp.k].kind)
    /\ loops' = [loops EXCEPT ![l] = NotifyCall(lp, err)]
    /\ UNCHANGED LoopVars

\* RunRenotify that returns to run's select when the context is done.
RunRenotifyUnlessCancelled(l, err) ==
    /\ loops[l].pc = "renotify"
    /\ err \in NotifyErrs(loops[l].snap.notifiers[loops[l].k].kind)
    /\ loops' = [loops EXCEPT ![l] =
           IF CtxDone(dCtx)
           THEN AtRelease(loops[l], Len(loops[l].rels) + 1)
           ELSE NotifyCall(loops[l], err)]
    /\ UNCHANGED LoopVars

\* handleDriftReport: one Notify call of the healed report.
RunRenotify(l, err) ==
    /\ loops[l].pc = "renotify"
    /\ err \in NotifyErrs(loops[l].snap.notifiers[loops[l].k].kind)
    /\ loops' = [loops EXCEPT ![l] = NotifyCall(loops[l], err)]
    /\ UNCHANGED LoopVars

\* RunExit on a context that is not derived from the one passed to Start.
RunExitOwnCancelOnly(l) ==
    /\ loops[l].pc = "select"
    /\ dCtx \in cancelled
    /\ loops' = [loops EXCEPT ![l] = [NewLoop(loops[l].start) EXCEPT !.pc = "exited"]]
    /\ wg' = wg - 1
    /\ UNCHANGED <<dRunning, dCtx, dCancel, ctxs, cancelled, parentDone, callers,
                   dcalls, dConf, hist, checked>>

\* run: select takes d.ctx.Done(); the deferred ticker.Stop and wg.Done run.
\* Of a loop that has exited only the Start that launched it is kept.
RunExit(l) ==
    /\ loops[l].pc = "select"
    /\ CtxDone(dCtx)
    /\ loops' = [loops EXCEPT ![l] = [NewLoop(loops[l].start) EXCEPT !.pc = "exited"]]
    /\ wg' = wg - 1
    /\ UNCHANGED <<dRunning, dCtx, dCancel, ctxs, cancelled, parentDone, callers,
                   dcalls, dConf, hist, checked>>

\* The owner of the context passed to Start cancels it.
CancelParent ==
    /\ ~parentDone
    /\ parentDone' = TRUE
    /\ UNCHANGED <<dRunning, dCtx, dCancel, ctxs, cancelled, wg, loops, callers,
                   dcalls, dConf, hist, checked>>

\* A release and a diff run to make a report of, and the report once made.
ToCheck(release, run) ==
    [release |-> release, run |-> run, done |-> FALSE, report |-> <<>>]
NothingToCheck == ToCheck(DetRelease("", "", Nil), HelmRun(0, 0))

\* The diff runs a release is checked on: every length of output.
SevRuns == {HelmRun(0, 0), HelmRun(1, 0)} \cup {HelmRun(2, n) : n \in 0..MaxDiffLen}

\* checkReleaseDrift applied to the release and the result of the diff run.
CheckReleaseDrift ==
    /\ ~checked.done
    /\ checked' = [checked EXCEPT !.done = TRUE,
           !.report = checkReleaseDrift(checked.release, DiffRelease(checked.run))]
    /\ UNCHANGED <<dLife, dConf, loops, callers, dcalls, hist>>

\* NewDetector(manager, interval, logger)
NewDetector(manager) ==
    /\ dManager = manager
    /\ notifiers = <<>>
    /\ autoHeal = FALSE
    /\ healFunc = Nil
    /\ dRunning = FALSE
    /\ dCtx = NilCtx
    /\ dCancel = NilCtx
    /\ ctxs = 0
    /\ cancelled = {}
    /\ parentDone = FALSE
    /\ wg = 0
    /\ loops = <<>>
    /\ callers = [c \in Callers |-> CallerIdle(0, None, Nil)]
    /\ dcalls = 0
    /\ hist = NoHistory
    /\ checked = NothingToCheck

\* The detector of the drift command with auto-heal, before its Start:
\* constructed, given the stdout notifier and the sync function.
InitDet ==
    /\ dManager = CommandManager
    /\ notifiers = <<NotifierOf(1, "stdout")>>
    /\ autoHeal = TRUE
    /\ healFunc = "sync"
    /\ dRunning = FALSE
    /\ dCtx = NilCtx
    /\ dCancel = NilCtx
    /\ ctxs = 0
    /\ cancelled = {}
    /\ parentDone = FALSE
    /\ wg = 0
    /\ loops = <<>>
    /\ callers = [c \in Callers |-> CallerIdle(0, None, Nil)]
    /\ dcalls = 0
    /\ hist = NoHistory
    /\ checked = NothingToCheck

\* A detector constructed with any of the managers.
InitTick == \E m \in Managers : NewDetector(m)

LoopNext(l) ==
    \/ RunInitialCheck(l)
    \/ RunTickCheck(l)
    \/ \E run \in HelmRuns : RunDiff(l, run)
    \/ handleDriftReport(l)
    \/ \E err \in BOOLEAN : RunNotify(l, err)
    \/ \E err \in BOOLEAN : RunHeal(l, err)
    \/ \E err \in BOOLEAN : RunRenotify(l, err)
    \/ RunExit(l)

\* Callers starting and stopping the detector of the drift command.
NextDet ==
    \/ \E c \in Callers :
           \/ DetStart(c)
           \/ DetStartSpawn(c)
           \/ DetStop(c)
           \/ DetStopCancel(c)
           \/ DetStopWaited(c)
           \/ DetStopClear(c)
    \/ \E l \in 1..Len(loops) : LoopNext(l) \/ TickerFires(l)
    \/ CancelParent

\* One caller configuring a detector and starting it, the owner of the
\* context it passed cancelling.
NextTick ==
    \/ \E n \in Notifiers : AddNotifier(n)
    \/ \E a \in AutoHealArgs : EnableAutoHeal(a[1], a[2])
    \/ \E rels \in ReloadedReleases : ManagerLoad(rels)
    \/ DetStart(1)
    \/ DetStartSpawn(1)
    \/ \E l \in 1..Len(loops) : LoopNext(l) \/ TickerFires(l)
    \/ CancelParent

\* A detector about to check one release of its manager on one diff run.
InitSev ==
    /\ dManager = CommandManager
    /\ notifiers = <<>>
    /\ autoHeal = FALSE
    /\ healFunc = Nil
    /\ dRunning = FALSE
    /\ dCtx = NilCtx
    /\ dCancel = NilCtx
    /\ ctxs = 0
    /\ cancelled = {}
    /\ parentDone = FALSE
    /\ wg = 0
    /\ loops = <<>>
    /\ callers = [c \in Callers |-> CallerIdle(0, None, Nil)]
    /\ dcalls = 0
    /\ hist = NoHistory
    /\ \E run \in SevRuns :
           checked = ToCheck(GetReleases(dManager)[1], run)

NextSev == CheckReleaseDrift

\* A detector of two releases with the webhook and the stdout notifier and
\* auto-heal, before its Start.
InitLive ==
    /\ dManager = ManagerOf(<<DetRelease("nginx", "web", Nil),
                              DetRelease("db", "", "true")>>)
    /\ notifiers = <<NotifierOf(2, "webhook"), NotifierOf(1, "stdout")>>
    /\ autoHeal = TRUE
    /\ healFunc = "sync"
    /\ dRunning = FALSE
    /\ dCtx = NilCtx
    /\ dCancel = NilCtx
    /\ ctxs = 0
    /\ cancelled = {}
    /\ parentDone = FALSE
    /\ wg = 0
    /\ loops = <<>>
    /\ callers = [c \in Callers |-> CallerIdle(0, None, Nil)]
    /\ dcalls = 0
    /\ hist = NoHistory
    /\ checked = NothingToCheck

\* One caller starting and stopping that detector, call after call.
NextLive ==
    \/ DetStart(1)
    \/ DetStartSpawn(1)
    \/ DetStop(1)
    \/ DetStopCancel(1)
    \/ DetStopWaited(1)
    \/ DetStopClear(1)
    \/ \E l \in 1..Len(loops) : LoopNext(l) \/ TickerFires(l)
    \/ CancelParent

\* The run goroutine of a loop is scheduled again and again, and the calls
\* it makes (helm diff, Notify, healFunc) return.
LoopRuns(l) ==
    /\ l <= Len(loops)
    /\ LoopNext(l)
    /\ UNCHANGED regVars /\ UNCHANGED seqVars /\ UNCHANGED concVars
    /\ UNCHANGED <<pidFile, alive, port, dmn, cli, resp, client, lst, req>>
LoopFairness == \A l \in 1..MaxDetCalls : WF_vars(LoopRuns(l))

\* A select at which ctx.Done() is ready again and again takes it in the
\* end: Go chooses among the ready cases at random.
ExitRuns(l) ==
    /\ l <= Len(loops)
    /\ RunExit(l)
    /\ UNCHANGED regVars /\ UNCHANGED seqVars /\ UNCHANGED concVars
    /\ UNCHANGED <<pidFile, alive, port, dmn, cli, resp, client, lst, req>>
ExitFairness == \A l \in 1..MaxDetCalls : SF_vars(ExitRuns(l))

\* The goroutine of a caller inside Start or Stop is scheduled until the
\* call returns.
CallRuns(c) ==
    /\ \/ DetStartSpawn(c)
       \/ DetStopCancel(c)
       \/ DetStopWaited(c)
       \/ DetStopClear(c)
    /\ UNCHANGED regVars /\ UNCHANGED seqVars /\ UNCHANGED concVars
    /\ UNCHANGED <<pidFile, alive, port, dmn, cli, resp, client, lst, req>>
CallFairness == \A c \in Callers : WF_vars(CallRuns(c))

----------------------------------------------------------------------------
(* The daemon (pkg/daemon).  Each daemon is a process of its own running   *)
(* "daemon start": NewDaemon, Start, Wait.  The processes share the PID    *)
(* file and the API address.  Each system call and each call into the API  *)
(* server or the detector is one step; os.WriteFile is two, its open and   *)
(* its write.  Of the detector inside a daemon only its running flag and   *)
(* its run goroutine are kept.                                             *)

NumDaemons == 2
MaxPolls == 30
MaxStops == 2

Daemons == 1..NumDaemons

ErrDaemonRunning == "daemon already running"
ErrWritePID == "failed to write PID file"
ErrStartAPI == "failed to start API server"
ErrStartDetector == "failed to start drift detector"
ErrPIDNotFound == "daemon not running (PID file not found)"
ErrInvalidPID == "invalid PID in file"
ErrSigterm == "failed to send SIGTERM"
ErrKill == "failed to kill process"
ErrRemovePID == "failed to remove PID file"

SIGTERM == "SIGTERM"
SIGKILL == "SIGKILL"
NilSignal == "nil"

\* The process id of a daemon process: os.Getpid().
PidOf(p) == 10 + p

\* The PID file: absent, or present with its bytes and the file the path
\* names, told apart by the pid of the process whose open created it.
NoFile == <<>>
FileOf(text, ino) == <<text, ino>>

\* Bytes.
IsDigit(b) == b >= 48 /\ b <= 57
IsSpace(b) == b \in {9, 10, 11, 12, 13, 32}

\* fmt.Sprintf("%d", n) for n >= 0
RECURSIVE Digits(_)
Digits(n) ==
    IF n < 10 THEN <<48 + n>> ELSE Digits(n \div 10) \o <<48 + (n % 10)>>

\* fmt.Sprintf("%d\n", pid)
SprintfPID(pid) == Digits(pid) \o <<10>>

\* strings.TrimSpace
RECURSIVE TrimLeft(_)
TrimLeft(s) ==
    IF Len(s) > 0 /\ IsSpace(s[1]) THEN TrimLeft(Tail(s)) ELSE s

RECURSIVE TrimRight(_)
TrimRight(s) ==
    IF Len(s) > 0 /\ IsSpace(s[Len(s)])
    THEN TrimRight(SubSeq(s, 1, Len(s) - 1))
    ELSE s

TrimSpace(s) == TrimRight(TrimLeft(s))

\* The value of a sequence of digits.
RECURSIVE DigitsValue(_)
DigitsValue(s) ==
    IF Len(s) = 0 THEN 0
    ELSE 10 * DigitsValue(SubSeq(s, 1, Len(s) - 1)) + (s[Len(s)] - 48)

\* strconv.Atoi: an optional sign and one or more digits, nothing else.
Atoi(s) ==
    LET signed == Len(s) > 0 /\ s[1] \in {43, 45}
        ds == IF signed THEN Tail(s) ELSE s IN
    IF Len(ds) = 0 \/ \E j \in 1..Len(ds) : ~IsDigit(ds[j])
    THEN [ok |-> FALSE, n |-> 0]
    ELSE [ok |-> TRUE,
          n |-> IF signed /\ s[1] = 45 THEN 0 - DigitsValue(ds)
                ELSE DigitsValue(ds)]

\* IsDaemonRunning, first part: os.ReadFile and the parse of the pid.  It
\* returns (false, nil) when there is no file and an error when the bytes
\* are no number; else it goes on with the pid.
IsDaemonRunningRead(file) ==
    IF file = NoFile THEN [returned |-> TRUE, err |-> Nil, pid |-> 0]
    ELSE IF ~Atoi(TrimSpace(file[1])).ok
         THEN [returned |-> TRUE, err |-> ErrInvalidPID, pid |-> 0]
         ELSE [returned |-> FALSE, err |-> Nil,
               pid |-> Atoi(TrimSpace(file[1])).n]

\* IsDaemonRunningSignal without the probe of the process: a pid read from
\* the file means running.
IsDaemonRunningSignalByFile(pid, live) == [running |-> TRUE, err |-> Nil]

\* IsDaemonRunning, second part: FindProcess and Signal(0) on the pid that
\* was read; live are the processes there are at that moment.
IsDaemonRunningSignal(pid, live) == [running |-> pid \in live, err |-> Nil]

\* A daemon process.  pc: where its main goroutine stands; err: what Start
\* returned; api: the http.Server; running, loop: the detector's flag and
\* its run goroutine; ctxDone: Daemon.ctx was cancelled; handled:
\* signal.Notify was called; ch: Daemon.shutdownCh (capacity one); asked:
\* the shutdown request, from its acknowledgement to the send of its
\* goroutine; stops: the Stop calls that have returned; stopErr: what the
\* latest of them returned; rmErr: whether its removePIDFile returned an
\* error; read: the pid IsRunning has read and not yet probed; fd: the
\* file os.WriteFile has opened and not yet written (0: none).
NewDaemon(det) ==
    [pc |-> "start", err |-> Nil, api |-> "new", det |-> det,
     running |-> FALSE, loop |-> "none", ctxDone |-> FALSE, handled |-> FALSE,
     ch |-> <<>>, asked |-> "no", stops |-> 0, stopErr |-> Nil,
     rmErr |-> FALSE, read |-> 0, fd |-> 0]

\* No process yet.
NoDaemon == [NewDaemon(FALSE) EXCEPT !.pc = "none"]

\* What is left of a process that is gone: how it ended.
Gone(d, how) == [NewDaemon(d.det) EXCEPT !.pc = how]

\* StopDaemon and IsDaemonRunning as called by "daemon stop" and "daemon
\* status", a process of its own.  pc: where StopDaemon stands; pid, polls:
\* its variables pid and i; err: what it returned; sent: the signals it
\* raised, in order; rmErr: whether its os.Remove returned an error, which
\* it discards; probe: what the latest IsDaemonRunning returned; look: the
\* pid an IsDaemonRunning in progress has read (0: none in progress).
NewCli ==
    [pc |-> "idle", pid |-> 0, polls |-> 0, err |-> Nil, sent |-> <<>>,
     rmErr |-> FALSE, probe |-> <<>>, look |-> 0]

dmnVars == <<pidFile, alive, port, dmn, cli>>

\* A process is gone: its goroutines with it, its listening socket closed.
Dies(p, how) ==
    /\ alive' = alive \ {PidOf(p)}
    /\ port' = IF port = PidOf(p) THEN 0 ELSE port
    /\ dmn' = [dmn EXCEPT ![p] = Gone(dmn[p], how)]

\* A signal that Notify relays is raised on a process: it goes into
\* shutdownCh if there is room, once signal.Notify was called; before that
\* it ends the process.
Deliver(p, sig) ==
    IF dmn[p].handled
    THEN /\ dmn' = [dmn EXCEPT ![p].ch = IF Len(@) = 0 THEN <<sig>> ELSE @]
         /\ UNCHANGED <<alive, port>>
    ELSE Dies(p, "gone")

\* "daemon start" is run: a process, and NewDaemon in it, with a detector
\* or without.  The processes are started in order, from one configuration.
Launch(p, det) ==
    /\ dmn[p].pc = "none"
    /\ \A q \in Daemons : q < p => dmn[q].pc # "none" /\ dmn[q].det = det
    /\ dmn' = [dmn EXCEPT ![p] = NewDaemon(det)]
    /\ alive' = alive \cup {PidOf(p)}
    /\ UNCHANGED <<pidFile, port, cli>>

\* DaemonStart without the check of IsRunning.
DaemonStartUnchecked(p) ==
    /\ dmn[p].pc = "start"
    /\ dmn' = [dmn EXCEPT ![p].pc = "write"]
    /\ UNCHANGED <<pidFile, alive, port, cli>>

\* Daemon.Start, the check: IsRunning reads the PID file.  Without a pid
\* from it (no file, or an error) Start goes on.
DaemonStart(p) ==
    /\ dmn[p].pc = "start"
    /\ dmn' = [dmn EXCEPT ![p] =
           IF IsDaemonRunningRead(pidFile).returned
           THEN [@ EXCEPT !.pc = "write"]
           ELSE [@ EXCEPT !.pc = "probe",
                          !.read = IsDaemonRunningRead(pidFile).pid]]
    /\ UNCHANGED <<pidFile, alive, port, cli>>

\* Daemon.Start, the check: IsRunning probes the pid it read; return an
\* error if the process is there.
DaemonStartProbe(p) ==
    /\ dmn[p].pc = "probe"
    /\ dmn' = [dmn EXCEPT ![p] =
           IF IsDaemonRunningSignal(dmn[p].read, alive).running
           THEN [@ EXCEPT !.pc = "failed", !.err = ErrDaemonRunning, !.read = 0]
           ELSE [@ EXCEPT !.pc = "write", !.read = 0]]
    /\ UNCHANGED <<pidFile, alive, port, cli>>

\* Daemon.Start: writePIDFile, the open of os.WriteFile (O_WRONLY, O_CREATE,
\* O_TRUNC): the file is made, or the one that is there emptied; or the
\* open fails.
writePIDFileOpen(p, ok) ==
    /\ dmn[p].pc = "write"
    /\ IF ok
       THEN /\ pidFile' = IF pidFile = NoFile THEN FileOf(<<>>, PidOf(p))
                           ELSE FileOf(<<>>, pidFile[2])
            /\ dmn' = [dmn EXCEPT ![p].pc = "writing", ![p].fd = pidFile'[2]]
       ELSE /\ pidFile' = pidFile
            /\ dmn' = [dmn EXCEPT ![p].pc = "failed", ![p].err = ErrWritePID]
    /\ UNCHANGED <<alive, port, cli>>

\* writePIDFile whose write leaves the file as the open made it.
writePIDFileKeeps(p, outcome) ==
    /\ dmn[p].pc = "writing"
    /\ pidFile' = pidFile
    /\ dmn' = [dmn EXCEPT ![p] =
           IF outcome = "ok" THEN [@ EXCEPT !.pc = "api", !.fd = 0]
           ELSE [@ EXCEPT !.pc = "failed", !.err = ErrWritePID, !.fd = 0]]
    /\ UNCHANGED <<alive, port, cli>>

\* Daemon.Start: writePIDFile, the write of os.WriteFile and its close.  The
\* pid goes into the file that was opened, at offset 0; when the path has
\* lost that file since, the path is as it is.  The pids written are of
\* one length.  Or the write fails.
writePIDFile(p, outcome) ==
    /\ dmn[p].pc = "writing"
    /\ IF outcome = "ok"
       THEN /\ pidFile' = IF pidFile # NoFile /\ pidFile[2] = dmn[p].fd
                           THEN FileOf(SprintfPID(PidOf(p)), pidFile[2])
                           ELSE pidFile
            /\ dmn' = [dmn EXCEPT ![p].pc = "api", ![p].fd = 0]
       ELSE /\ pidFile' = pidFile
            /\ dmn' = [dmn EXCEPT ![p].pc = "failed", ![p].err = ErrWritePID,
                                  ![p].fd = 0]
    /\ UNCHANGED <<alive, port, cli>>

WriteOutcomes == {"ok", "short"}

\* Daemon.Start: apiServer.Start() launches the goroutine of ListenAndServe
\* and returns nil.
APIServerStart(p) ==
    /\ dmn[p].pc = "api"
    /\ dmn' = [dmn EXCEPT ![p].api = "spawned",
                          ![p].pc = IF dmn[p].det THEN "det" ELSE "notify"]
    /\ UNCHANGED <<pidFile, alive, port, cli>>

\* The goroutine of APIServer.Start: ListenAndServe binds the address and
\* serves, or fails (the address is in use, or cannot be bound) and the
\* error is logged.
ListenAndServe(p, ok) ==
    /\ dmn[p].api = "spawned"
    /\ IF ok /\ port = 0
       THEN /\ port' = PidOf(p)
            /\ dmn' = [dmn EXCEPT ![p].api = "listening"]
       ELSE /\ port' = port
            /\ dmn' = [dmn EXCEPT ![p].api = "failed"]
    /\ UNCHANGED <<pidFile, alive, cli>>

\* What os.Remove does to the PID file: it removes it, or fails.
RemoveOutcomes == {"ok", "fails"}

\* Daemon.Start: detector.Start(d.ctx); on its error stop the API server,
\* call removePIDFile, its result discarded, and return the error.
DetectorStart(p) ==
    /\ dmn[p].pc = "det"
    /\ IF dmn[p].running
       THEN /\ dmn' = [dmn EXCEPT ![p].pc = "failed", ![p].api = "closed",
                                  ![p].err = ErrStartDetector]
            /\ port' = IF port = PidOf(p) THEN 0 ELSE port
            /\ \E outcome \in RemoveOutcomes :
                   pidFile' = IF outcome = "ok" THEN NoFile ELSE pidFile
       ELSE /\ dmn' = [dmn EXCEPT ![p].pc = "notify", ![p].running = TRUE,
                                  ![p].loop = "live"]
            /\ UNCHANGED <<port, pidFile>>
    /\ UNCHANGED <<alive, cli>>

\* Daemon.Start: signal.Notify(d.shutdownCh, ...); return nil.  main goes
\* on to Wait.
SignalNotify(p) ==
    /\ dmn[p].pc = "notify"
    /\ dmn' = [dmn EXCEPT ![p].pc = "wait", ![p].handled = TRUE]
    /\ UNCHANGED <<pidFile, alive, port, cli>>

\* main returns, with the error of Start or after Wait: the process exits.
Exit(p) ==
    /\ dmn[p].pc \in {"failed", "done"}
    /\ Dies(p, "gone")
    /\ UNCHANGED <<pidFile, cli>>

\* The operator raises SIGTERM or an interrupt on the process.
RaiseSigterm(p) ==
    /\ PidOf(p) \in alive
    /\ Deliver(p, SIGTERM)
    /\ UNCHANGED <<pidFile, cli>>

\* The process is killed from outside, or the machine goes down.
Crash(p) ==
    /\ PidOf(p) \in alive
    /\ Dies(p, "gone")
    /\ UNCHANGED <<pidFile, cli>>

\* handleShutdown: answer "Shutting down..." and launch the goroutine that
\* will send on shutdownCh.
handleShutdown(p) ==
    /\ dmn[p].api = "listening"
    /\ dmn[p].asked = "no"
    /\ dmn' = [dmn EXCEPT ![p].asked = "acked"]
    /\ UNCHANGED <<pidFile, alive, port, cli>>

\* The goroutine of handleShutdown: h.daemon.shutdownCh <- nil
ShutdownSend(p) ==
    /\ dmn[p].asked = "acked"
    /\ Len(dmn[p].ch) = 0
    /\ dmn' = [dmn EXCEPT ![p].asked = "no", ![p].ch = <<NilSignal>>]
    /\ UNCHANGED <<pidFile, alive, port, cli>>

\* Daemon.Wait: receive from shutdownCh and log sig.String(), which is a
\* call on a nil interface when the value came from handleShutdown: the
\* goroutine panics and the process ends.  Else go on to Stop.
DaemonWait(p) ==
    /\ dmn[p].pc = "wait"
    /\ Len(dmn[p].ch) > 0
    /\ IF Head(dmn[p].ch) = NilSignal
       THEN Dies(p, "panicked")
       ELSE /\ dmn' = [dmn EXCEPT ![p].pc = "cancel", ![p].ch = <<>>]
            /\ UNCHANGED <<alive, port>>
    /\ UNCHANGED <<pidFile, cli>>

\* Daemon.Stop: d.cancel()
DaemonStopCancel(p) ==
    /\ dmn[p].pc = "cancel"
    /\ dmn' = [dmn EXCEPT ![p].ctxDone = TRUE,
                          ![p].pc = IF dmn[p].det THEN "stopdet" ELSE "stopapi"]
    /\ UNCHANGED <<pidFile, alive, port, cli>>

\* The detector's run goroutine selects ctx.Done() and returns.
DetectorRunExits(p) ==
    /\ dmn[p].loop = "live"
    /\ dmn[p].ctxDone
    /\ dmn' = [dmn EXCEPT ![p].loop = "exited"]
    /\ UNCHANGED <<pidFile, alive, port, cli>>

\* Daemon.Stop: detector.Stop() up to its wg.Wait(); its error, when the
\* detector is not running, is logged.
DetectorStop(p) ==
    /\ dmn[p].pc = "stopdet"
    /\ dmn' = [dmn EXCEPT ![p].pc = IF dmn[p].running THEN "stopwait"
                                    ELSE "stopapi"]
    /\ UNCHANGED <<pidFile, alive, port, cli>>

\* DetectorStopWaited without the wait for the run goroutine.
DetectorStopNoWait(p) ==
    /\ dmn[p].pc = "stopwait"
    /\ dmn' = [dmn EXCEPT ![p].pc = "stopapi", ![p].running = FALSE]
    /\ UNCHANGED <<pidFile, alive, port, cli>>

\* Daemon.Stop: detector.Stop() from wg.Wait() on: the run goroutine has
\* returned; running = false.
DetectorStopWaited(p) ==
    /\ dmn[p].pc = "stopwait"
    /\ dmn[p].loop # "live"
    /\ dmn' = [dmn EXCEPT ![p].pc = "stopapi", ![p].running = FALSE]
    /\ UNCHANGED <<pidFile, alive, port, cli>>

\* Daemon.Stop: apiServer.Stop(), server.Shutdown: the listener is closed
\* and no later ListenAndServe serves.
APIServerStop(p) ==
    /\ dmn[p].pc = "stopapi"
    /\ dmn' = [dmn EXCEPT ![p].pc = "rmpid", ![p].api = "closed"]
    /\ port' = IF port = PidOf(p) THEN 0 ELSE port
    /\ UNCHANGED <<pidFile, alive, cli>>

\* Daemon.Stop: removePIDFile() when os.Remove removes the file or finds
\* none, which is an error; the error is logged; return nil.  Wait returns
\* with it.
removePIDFile(p) ==
    /\ dmn[p].pc = "rmpid"
    /\ pidFile' = NoFile
    /\ dmn' = [dmn EXCEPT ![p].pc = "done", ![p].stops = @ + 1,
                          ![p].stopErr = Nil, ![p].rmErr = (pidFile = NoFile)]
    /\ UNCHANGED <<alive, port, cli>>

\* removePIDFileFails with Stop returning the error of os.Remove.
removePIDFileFailsReturned(p) ==
    /\ dmn[p].pc = "rmpid"
    /\ pidFile # NoFile
    /\ dmn' = [dmn EXCEPT ![p].pc = "done", ![p].stops = @ + 1,
                          ![p].stopErr = ErrRemovePID, ![p].rmErr = TRUE]
    /\ UNCHANGED <<pidFile, alive, port, cli>>

\* Daemon.Stop: removePIDFile() when os.Remove fails on a file that is
\* there (its directory does not allow it): the error is logged, the file
\* stays, Stop returns nil.
removePIDFileFails(p) ==
    /\ dmn[p].pc = "rmpid"
    /\ pidFile # NoFile
    /\ dmn' = [dmn EXCEPT ![p].pc = "done", ![p].stops = @ + 1,
                          ![p].stopErr = Nil, ![p].rmErr = TRUE]
    /\ UNCHANGED <<pidFile, alive, port, cli>>

\* Stop called on a daemon whose Stop has returned: d.cancel() on the
\* context already done; detector.Stop() returns "detector not running",
\* which is logged; apiServer.Stop() shuts down the server already shut
\* down; removePIDFile() as before; return nil.
DaemonStopAgain(p, outcome) ==
    /\ dmn[p].pc = "done"
    /\ dmn[p].stops < MaxStops
    /\ pidFile' = IF outcome = "ok" THEN NoFile ELSE pidFile
    /\ dmn' = [dmn EXCEPT ![p].stops = @ + 1, ![p].stopErr = Nil,
                          ![p].rmErr = (pidFile = NoFile \/ outcome = "fails")]
    /\ UNCHANGED <<alive, port, cli>>

\* "daemon status": IsDaemonRunning(pidFile), its read of the file.
CliIsDaemonRunning ==
    /\ cli.look = 0
    /\ cli' = IF IsDaemonRunningRead(pidFile).returned
              THEN [cli EXCEPT !.probe =
                        <<[running |-> FALSE,
                           err |-> IsDaemonRunningRead(pidFile).err]>>]
              ELSE [cli EXCEPT !.look = IsDaemonRunningRead(pidFile).pid]
    /\ UNCHANGED <<pidFile, alive, port, dmn>>

\* "daemon status": IsDaemonRunning(pidFile), its probe of the pid read.
CliIsDaemonRunningSignal ==
    /\ cli.look # 0
    /\ cli' = [cli EXCEPT !.probe = <<IsDaemonRunningSignal(cli.look, alive)>>,
                          !.look = 0]
    /\ UNCHANGED <<pidFile, alive, port, dmn>>

\* The daemon process with a pid.
DaemonOf(pid) == CHOOSE p \in Daemons : PidOf(p) = pid

\* StopDaemon: read the PID file and parse the pid.
StopDaemonRead ==
    /\ cli.pc = "idle"
    /\ cli' = IF pidFile = NoFile
              THEN [cli EXCEPT !.pc = "returned", !.err = ErrPIDNotFound]
              ELSE IF ~Atoi(TrimSpace(pidFile[1])).ok
              THEN [cli EXCEPT !.pc = "returned", !.err = ErrInvalidPID]
              ELSE [cli EXCEPT !.pc = "term",
                               !.pid = Atoi(TrimSpace(pidFile[1])).n]
    /\ UNCHANGED <<pidFile, alive, port, dmn>>

\* StopDaemon: process.Signal(syscall.SIGTERM)
StopDaemonTerm ==
    /\ cli.pc = "term"
    /\ IF cli.pid \in alive
       THEN /\ Deliver(DaemonOf(cli.pid), SIGTERM)
            /\ cli' = [cli EXCEPT !.pc = "poll", !.sent = <<SIGTERM>>]
       ELSE /\ cli' = [cli EXCEPT !.pc = "returned", !.err = ErrSigterm]
            /\ UNCHANGED <<alive, port, dmn>>
    /\ UNCHANGED pidFile

\* StopDaemonPoll that returns when the process is gone and leaves the PID
\* file.
StopDaemonPollKeepsFile ==
    /\ cli.pc = "poll"
    /\ cli.polls < MaxPolls
    /\ cli' = IF cli.pid \in alive THEN [cli EXCEPT !.polls = @ + 1]
              ELSE [cli EXCEPT !.pc = "returned"]
    /\ UNCHANGED <<pidFile, alive, port, dmn>>

\* StopDaemon: one round of the loop: signal 0; when the process is gone go
\* on to remove the PID file, else sleep.
StopDaemonPoll ==
    /\ cli.pc = "poll"
    /\ cli.polls < MaxPolls
    /\ cli' = IF cli.pid \in alive THEN [cli EXCEPT !.polls = @ + 1]
              ELSE [cli EXCEPT !.pc = "remove"]
    /\ UNCHANGED <<pidFile, alive, port, dmn>>

\* StopDaemon after the loop: process.Kill(), then on to remove the PID
\* file.
StopDaemonKill ==
    /\ cli.pc = "poll"
    /\ cli.polls = MaxPolls
    /\ IF cli.pid \in alive
       THEN /\ Dies(DaemonOf(cli.pid), "gone")
            /\ cli' = [cli EXCEPT !.pc = "remove", !.sent = Append(@, SIGKILL)]
       ELSE /\ cli' = [cli EXCEPT !.pc = "returned", !.err = ErrKill]
            /\ UNCHANGED <<alive, port, dmn>>
    /\ UNCHANGED pidFile

\* StopDaemon: os.Remove(pidFile), which removes the file, or fails and
\* leaves it, or finds none; its result is discarded; return nil.
StopDaemonRemove(outcome) ==
    /\ cli.pc = "remove"
    /\ pidFile' = IF outcome = "ok" THEN NoFile ELSE pidFile
    /\ cli' = [cli EXCEPT !.pc = "returned",
                          !.rmErr = (pidFile = NoFile \/ outcome = "fails")]
    /\ UNCHANGED <<alive, port, dmn>>

\* No daemon process, no PID file, the address free.
InitDaemon ==
    /\ pidFile = NoFile
    /\ alive = {}
    /\ port = 0
    /\ dmn = [p \in Daemons |-> NoDaemon]
    /\ cli = NewCli

\* The PID file of a daemon process that crashed is there; that process is
\* gone and was none of Daemons.
StalePid == PidOf(0)

InitStale ==
    /\ pidFile = FileOf(SprintfPID(StalePid), StalePid)
    /\ alive = {}
    /\ port = 0
    /\ dmn = [p \in Daemons |-> NoDaemon]
    /\ cli = NewCli

\* What a daemon process does by itself.
DaemonNext(p) ==
    \/ \E det \in BOOLEAN : Launch(p, det)
    \/ DaemonStart(p)
    \/ DaemonStartProbe(p)
    \/ \E ok \in BOOLEAN : writePIDFileOpen(p, ok)
    \/ \E outcome \in WriteOutcomes : writePIDFile(p, outcome)
    \/ APIServerStart(p)
    \/ \E ok \in BOOLEAN : ListenAndServe(p, ok)
    \/ DetectorStart(p)
    \/ SignalNotify(p)
    \/ DaemonWait(p)
    \/ DaemonStopCancel(p)
    \/ DetectorRunExits(p)
    \/ DetectorStop(p)
    \/ DetectorStopWaited(p)
    \/ APIServerStop(p)
    \/ removePIDFile(p)
    \/ removePIDFileFails(p)
    \/ Exit(p)

\* What the operator and the machine do to it.
DaemonEnv(p) ==
    \/ RaiseSigterm(p)
    \/ Crash(p)

\* Daemon processes started on one PID file and one address.
NextDaemon ==
    /\ \E p \in Daemons : DaemonNext(p) \/ DaemonEnv(p)
    /\ UNCHANGED cli

\* One daemon process whose Stop meets errors and is called again.
NextStopErr ==
    \/ /\ \/ DaemonNext(1)
          \/ DaemonEnv(1)
          \/ \E outcome \in RemoveOutcomes : DaemonStopAgain(1, outcome)
       /\ UNCHANGED cli
    \/ CliIsDaemonRunning
    \/ CliIsDaemonRunningSignal

\* One daemon process with the clients of its API, and "daemon status" and
\* "daemon stop" run on its PID file.
NextStopd ==
    \/ /\ \/ DaemonNext(1)
           \/ DaemonEnv(1)
           \/ handleShutdown(1)
           \/ ShutdownSend(1)
       /\ UNCHANGED cli
    \/ CliIsDaemonRunning
    \/ CliIsDaemonRunningSignal
    \/ StopDaemonRead
    \/ StopDaemonTerm
    \/ StopDaemonPoll
    \/ StopDaemonKill
    \/ \E outcome \in RemoveOutcomes : StopDaemonRemove(outcome)

----------------------------------------------------------------------------
(* The daemon's API (pkg/daemon/api.go): the handlers of the substitution
   registry.  A request is a method and a body that decodes as JSON or does
   not; an answer is a status code and, for the list, the two lists.  A
   handler that adds or removes makes one registry call and is one step;
   the list and the status make two, each a step.  The handlers work on the
   registry maps themselves; the call records of SpecSeq (ret, prev) and its
   reference maps are not kept here. *)

StatusOK == 200
StatusBadRequest == 400
StatusMethodNotAllowed == 405

Methods == {"GET", "POST"}

\* A request and its answer.  n tells two equal requests in a row apart.
Response(path, method, valid, original, arg, code, cl, il) ==
    [n |-> 1 - resp.n, path |-> path, method |-> method, valid |-> valid,
     original |-> original, arg |-> arg, code |-> code,
     charts |-> cl, images |-> il]

NoResponse ==
    [n |-> 0, path |-> "", method |-> "", valid |-> FALSE, original |-> "",
     arg |-> "", code |-> 0, charts |-> NoList, images |-> NoList]


\* A handler answers without calling the registry.
Answers(r) ==
    /\ resp' = r
    /\ UNCHANGED <<charts, images, releases, ret, prev, refCharts, refImages>>

\* sendSuccess after the registry call returned nil, else sendError.
CodeOf(err) == IF err = Nil THEN StatusOK ELSE StatusBadRequest

\* The registry call of a handler has returned: the maps as the call left
\* them, and the answer.
Handled(cm, im, r) ==
    /\ charts' = cm
    /\ images' = im
    /\ resp' = r
    /\ UNCHANGED <<releases, ret, prev, refCharts, refImages>>

\* handleRemoveChart answering success whatever the registry returned.
handleRemoveChartAlwaysOK(method, valid, original) ==
    IF method # "POST"
    THEN Answers(Response("charts/remove", method, valid, original, "",
                          StatusMethodNotAllowed, NoList, NoList))
    ELSE IF ~valid
    THEN Answers(Response("charts/remove", method, valid, original, "",
                          StatusBadRequest, NoList, NoList))
    ELSE Handled(RemoveFrom(charts, original, ErrChartNotFound).m, images,
                 Response("charts/remove", method, valid, original, "",
                          StatusOK, NoList, NoList))

\* handleCharts: substitutor.AddChartSubstitution(req.Original,
\* req.LocalPath), which validates the path and then sets the entry.
handleCharts(method, valid, original, localPath) ==
    IF method # "POST"
    THEN Answers(Response("charts", method, valid, original, localPath,
                          StatusMethodNotAllowed, NoList, NoList))
    ELSE IF ~valid
    THEN Answers(Response("charts", method, valid, original, localPath,
                          StatusBadRequest, NoList, NoList))
    ELSE LET v == ValidateChartPath(localPath) IN
         Handled(IF v.err = Nil THEN MapSet(charts, original, v.absPath)
                 ELSE charts,
                 images,
                 Response("charts", method, valid, original, localPath,
                          CodeOf(v.err), NoList, NoList))

\* handleRemoveChart: substitutor.RemoveChartSubstitution(req.Original)
handleRemoveChart(method, valid, original) ==
    IF method # "POST"
    THEN Answers(Response("charts/remove", method, valid, original, "",
                          StatusMethodNotAllowed, NoList, NoList))
    ELSE IF ~valid
    THEN Answers(Response("charts/remove", method, valid, original, "",
                          StatusBadRequest, NoList, NoList))
    ELSE LET r == RemoveFrom(charts, original, ErrChartNotFound) IN
         Handled(r.m, images,
                 Response("charts/remove", method, valid, original, "",
                          CodeOf(r.err), NoList, NoList))

\* handleImages: substitutor.AddImageSubstitution(req.Original,
\* req.Replacement)
handleImages(method, valid, original, replacement) ==
    IF method # "POST"
    THEN Answers(Response("images", method, valid, original, replacement,
                          StatusMethodNotAllowed, NoList, NoList))
    ELSE IF ~valid
    THEN Answers(Response("images", method, valid, original, replacement,
                          StatusBadRequest, NoList, NoList))
    ELSE LET err == ValidateImageRefs(original, replacement) IN
         Handled(charts,
                 IF err = Nil THEN MapSet(images, original, replacement)
                 ELSE images,
                 Response("images", method, valid, original, replacement,
                          CodeOf(err), NoList, NoList))

\* handleRemoveImage: substitutor.RemoveImageSubstitution(req.Original)
handleRemoveImage(method, valid, original) ==
    IF method # "POST"
    THEN Answers(Response("images/remove", method, valid, original, "",
                          StatusMethodNotAllowed, NoList, NoList))
    ELSE IF ~valid
    THEN Answers(Response("images/remove", method, valid, original, "",
                          StatusBadRequest, NoList, NoList))
    ELSE LET r == RemoveFrom(images, original, ErrImageNotFound) IN
         Handled(charts, r.m,
                 Response("images/remove", method, valid, original, "",
                          CodeOf(r.err), NoList, NoList))

\* The lists of the registry copied into the answer, entry by entry.
ResponseCharts(list) ==
    [i \in 1..Len(list) |->
        [Original |-> list[i].Original, LocalPath |-> list[i].LocalPath]]

ResponseImages(list) ==
    [i \in 1..Len(list) |->
        [Original |-> list[i].Original, Replacement |-> list[i].Replacement]]

\* A GET /api/v1/substitutions or GET /api/v1/status being served: net/http
\* runs each handler in a goroutine of its own.  kind is "list" or
\* "status"; chartPart and imagePart are what the two registry calls of the
\* handler returned; seen is, as history, the registry states there were
\* since the request arrived.
Listing(pc, kind, cl, il, seen) ==
    [pc |-> pc, kind |-> kind, chartPart |-> cl, imagePart |-> il, seen |-> seen]

NoListing == Listing("idle", None, NoList, NoList, {})

\* handleSubstitutions: the request arrives.  Another method than GET is
\* answered at once; else the handler goes on to its two registry calls.
handleSubstitutions(method) ==
    /\ lst.pc \in {"idle", "done"}
    /\ IF method # "GET"
       THEN /\ Answers(Response("substitutions", method, FALSE, "", "",
                                StatusMethodNotAllowed, NoList, NoList))
            /\ lst' = lst
       ELSE /\ lst' = Listing("charts", "list", NoList, NoList,
                              {<<charts, images>>})
            /\ UNCHANGED <<charts, images, releases, ret, prev, refCharts,
                           refImages, resp>>

\* handleStatus: the request arrives; with GET the handler goes on to
\* Daemon.GetStatus and its two registry calls.
handleStatus(method) ==
    /\ lst.pc \in {"idle", "done"}
    /\ IF method # "GET"
       THEN /\ Answers(Response("status", method, FALSE, "", "",
                                StatusMethodNotAllowed, NoList, NoList))
            /\ lst' = lst
       ELSE /\ lst' = Listing("charts", "status", NoList, NoList,
                              {<<charts, images>>})
            /\ UNCHANGED <<charts, images, releases, ret, prev, refCharts,
                           refImages, resp>>

\* charts := substitutor.ListChartSubstitutions(): the chart map is copied
\* under the read lock, which is released on return.
ServeListCharts ==
    /\ lst.pc = "charts"
    /\ \E co \in RangeOrders(charts) :
           lst' = [lst EXCEPT !.pc = "images",
                              !.chartPart = ChartList(charts, co)]
    /\ UNCHANGED <<charts, images, releases, ret, prev, refCharts, refImages,
                   resp>>

\* What the answer of a served request says: the two lists, or for the
\* status their lengths (ActiveSubstitutions.Charts and .Images).
ListAnswer(l) ==
    IF l.kind = "status"
    THEN [charts |-> Len(l.chartPart), images |-> Len(l.imagePart)]
    ELSE [charts |-> ResponseCharts(l.chartPart),
          images |-> ResponseImages(l.imagePart)]

\* images := substitutor.ListImageSubstitutions(), under the read lock
\* taken anew; the answer is then made of the two lists and sent.  The
\* answer of the status is kept in the record of the request only.
ServeListImages ==
    /\ lst.pc = "images"
    /\ \E io \in RangeOrders(images) :
           /\ lst' = [lst EXCEPT !.pc = "done",
                                 !.imagePart = ImageList(images, io)]
           /\ resp' = IF lst.kind = "list"
                      THEN Response("substitutions", "GET", FALSE, "", "",
                                    StatusOK, ListAnswer(lst').charts,
                                    ListAnswer(lst').images)
                      ELSE resp
    /\ UNCHANGED <<charts, images, releases, ret, prev, refCharts, refImages>>

\* The requests a client of the API sends, one after the other: it has the
\* answer of one before it sends the next.  The record of an answered list
\* request is dropped with the next request.
NextApi ==
    \/ /\ lst.pc \notin {"charts", "images"}
       /\ \/ \E m \in Methods, v \in BOOLEAN, o \in ChartRefs, p \in LocalPaths :
                 handleCharts(m, v, o, p)
          \/ \E m \in Methods, v \in BOOLEAN, o \in ChartRefs :
                 handleRemoveChart(m, v, o)
          \/ \E m \in Methods, v \in BOOLEAN, o \in ImageRefs, r \in Replacements :
                 handleImages(m, v, o, r)
          \/ \E m \in Methods, v \in BOOLEAN, o \in ImageRefs :
                 handleRemoveImage(m, v, o)
       /\ lst' = NoListing
    \/ \E m \in Methods : handleSubstitutions(m)
    \/ ServeListCharts
    \/ ServeListImages

\* The originals and values the requests served beside a list request carry.
ListCharts == {<<"repo", "a">>}
ListPaths == {<<"good">>}
ListImages == {"nginx"}
ListReplacements == {"r1"}

\* Another request changes the registry while the list request is served.
ServeOther ==
    /\ \/ \E o \in ListCharts, p \in ListPaths : handleCharts("POST", TRUE, o, p)
       \/ \E o \in ListCharts : handleRemoveChart("POST", TRUE, o)
       \/ \E o \in ListImages, r \in ListReplacements :
              handleImages("POST", TRUE, o, r)
       \/ \E o \in ListImages : handleRemoveImage("POST", TRUE, o)
    /\ lst' = IF lst.pc \in {"charts", "images"}
              THEN [lst EXCEPT !.seen = @ \cup {<<charts', images'>>}]
              ELSE lst

\* One list or status request at a time, served beside requests that add
\* and remove.
NextList ==
    \/ \E m \in Methods : handleSubstitutions(m)
    \/ \E m \in Methods : handleStatus(m)
    \/ ServeListCharts
    \/ ServeListImages
    \/ ServeOther

----------------------------------------------------------------------------
(* The registry commands of the helmfire CLI (cmd/helmfire/main.go).  Each
   invocation is a process of its own, with the registry main created for
   it, which is empty; it ends when the command returns.  A command that
   goes to the daemon sends its request and waits in http.Client.Post; the
   daemon, another process, serves the request in a goroutine of its own:
   the registry call, then the answer.  The daemon can end and the client's
   timeout can expire between any two of these. *)

ErrViaDaemon == "failed to add substitution via daemon"
ErrConnect == "failed to connect to daemon"

\* A command that has returned: route is "api" when it went to the daemon's
\* API and "local" when it called the process's own registry; localCharts
\* and localImages are that registry when the command returned; found is
\* what its IsDaemonRunning returned, when it called it.
Command(cmd, original, arg, route, err, lc, li, found) ==
    [n |-> 1 - client.n, pc |-> "returned", cmd |-> cmd, original |-> original,
     arg |-> arg, route |-> route, err |-> err, localCharts |-> lc,
     localImages |-> li, look |-> 0, found |-> found]

NoCommand ==
    [n |-> 0, pc |-> "returned", cmd |-> None, original |-> "", arg |-> "",
     route |-> None, err |-> Nil, localCharts |-> EmptyMap,
     localImages |-> EmptyMap, look |-> 0, found |-> FALSE]

\* A command that has not returned: at the probe of IsDaemonRunning, with
\* the pid it read (look), about to post to the API, or waiting in
\* http.Client.Post for the answer.
CommandAt(pc, cmd, original, arg, look) ==
    [n |-> client.n, pc |-> pc, cmd |-> cmd, original |-> original,
     arg |-> arg, route |-> None, err |-> Nil, localCharts |-> EmptyMap,
     localImages |-> EmptyMap, look |-> look, found |-> pc \in {"post", "wait"}]

\* The request of a command on its connection to the daemon: arrived, the
\* handler not yet at its registry call; called, the registry call returned
\* and the answer (code) not yet written; answered, the answer written to
\* the connection and not yet read by the command; reset, the connection
\* closed by the end of the daemon process before it had answered.  by: the
\* process serving it; waited: the command still waits for the answer.
Request(pc, by, cmd, original, arg) ==
    [pc |-> pc, by |-> by, cmd |-> cmd, original |-> original, arg |-> arg,
     code |-> 0, waited |-> TRUE]

NoRequest == [Request("none", 0, None, "", "") EXCEPT !.waited = FALSE]

\* APIClient.post returns nil on status 200 and the error of the answer
\* otherwise.
PostErr(r) == IF r.code = StatusOK THEN Nil ELSE ErrViaDaemon

\* The request when the processes in live are left: a process that ends
\* takes its handler goroutines with it and its connections are closed; an
\* answer it had written stays on the connection for the command to read.
Closed(r, live) ==
    IF r.pc \in {"arrived", "called"} /\ r.by \notin live
    THEN IF r.waited THEN [r EXCEPT !.pc = "reset"] ELSE NoRequest
    ELSE r

\* The daemon's registry, the answer of its API and the daemon are left
\* alone.
ClientAlone ==
    /\ UNCHANGED <<charts, images, releases, ret, prev, refCharts, refImages,
                   resp, req>>
    /\ UNCHANGED dmnVars

\* The command returns what APIClient.post returned.
PostReturns(err) ==
    client' = Command(client.cmd, client.original, client.arg, "api", err,
                      EmptyMap, EmptyMap, TRUE)

\* APIClient.post got no connection: nothing listens on the API address.
PostRefused ==
    /\ port = 0
    /\ PostReturns(ErrConnect)
    /\ ClientAlone

\* APIClient.post: the connection is made and the request sent to the
\* process listening; the command waits in http.Client.Post.  One request is
\* followed at a time.
PostSent ==
    /\ port # 0
    /\ req.pc = "none"
    /\ req' = Request("arrived", port, client.cmd, client.original, client.arg)
    /\ client' = CommandAt("wait", client.cmd, client.original, client.arg, 0)
    /\ UNCHANGED <<charts, images, releases, ret, prev, refCharts, refImages,
                   resp>>
    /\ UNCHANGED dmnVars


\* globalSubstitutor.AddChartSubstitution on the registry of the command's
\* process, and the return of the command.
chartCmdLocal(original, localPath) ==
    LET v == ValidateChartPath(localPath) IN
    /\ client' = Command("chart", original, localPath, "local", v.err,
                         IF v.err = Nil
                         THEN MapSet(EmptyMap, original, v.absPath)
                         ELSE EmptyMap,
                         EmptyMap, FALSE)
    /\ ClientAlone

\* "helmfire chart <original> <local-path>": IsDaemonRunning reads the PID
\* file; without a pid from it the command adds locally.
chartCmd(original, localPath) ==
    /\ client.pc = "returned"
    /\ IF IsDaemonRunningRead(pidFile).returned
       THEN chartCmdLocal(original, localPath)
       ELSE /\ client' = CommandAt("probe", "chart", original, localPath,
                                   IsDaemonRunningRead(pidFile).pid)
            /\ ClientAlone

\* The chart command: IsDaemonRunning probes the pid it read; running, the
\* command goes to the API, else it adds locally.
chartCmdProbe ==
    /\ client.pc = "probe"
    /\ client.cmd = "chart"
    /\ IF IsDaemonRunningSignal(client.look, alive).running
       THEN /\ client' = CommandAt("post", "chart", client.original,
                                   client.arg, 0)
            /\ ClientAlone
       ELSE chartCmdLocal(client.original, client.arg)

\* The chart command: APIClient.AddChartSubstitution posts to the daemon's
\* API; with nothing listening the command returns the error.
chartCmdPost ==
    /\ client.pc = "post"
    /\ client.cmd = "chart"
    /\ PostRefused \/ PostSent

\* globalSubstitutor.AddImageSubstitution on the registry of the command's
\* process, and the return of the command.
imageCmdLocal(original, replacement) ==
    LET err == ValidateImageRefs(original, replacement) IN
    /\ client' = Command("image", original, replacement, "local", err,
                         EmptyMap,
                         IF err = Nil
                         THEN MapSet(EmptyMap, original, replacement)
                         ELSE EmptyMap,
                         FALSE)
    /\ ClientAlone

\* "helmfire image <original> <replacement>": IsDaemonRunning reads the PID
\* file; without a pid from it the command adds locally.
imageCmd(original, replacement) ==
    /\ client.pc = "returned"
    /\ IF IsDaemonRunningRead(pidFile).returned
       THEN imageCmdLocal(original, replacement)
       ELSE /\ client' = CommandAt("probe", "image", original, replacement,
                                   IsDaemonRunningRead(pidFile).pid)
            /\ ClientAlone

\* The image command: IsDaemonRunning probes the pid it read.
imageCmdProbe ==
    /\ client.pc = "probe"
    /\ client.cmd = "image"
    /\ IF IsDaemonRunningSignal(client.look, alive).running
       THEN /\ client' = CommandAt("post", "image", client.original,
                                   client.arg, 0)
            /\ ClientAlone
       ELSE imageCmdLocal(client.original, client.arg)

\* The image command: APIClient.AddImageSubstitution posts to the daemon's
\* API; with nothing listening the command returns the error.
imageCmdPost ==
    /\ client.pc = "post"
    /\ client.cmd = "image"
    /\ PostRefused \/ PostSent

\* The daemon's handler goroutine for the request, handleCharts or
\* handleImages, up to the return of its registry call: the registry is as
\* the call left it and the answer is decided, not yet written.
handlePost ==
    /\ req.pc = "arrived"
    /\ req.by \in alive
    /\ IF req.cmd = "chart"
       THEN handleCharts("POST", TRUE, req.original, req.arg)
       ELSE handleImages("POST", TRUE, req.original, req.arg)
    /\ req' = [req EXCEPT !.pc = "called", !.code = resp'.code]
    /\ UNCHANGED client
    /\ UNCHANGED dmnVars

\* The handler's sendSuccess or sendError writes the answer to the
\* connection of a command that waits for it.
sendAnswer ==
    /\ req.pc = "called"
    /\ req.by \in alive
    /\ req.waited
    /\ req' = [req EXCEPT !.pc = "answered"]
    /\ UNCHANGED <<charts, images, releases, ret, prev, refCharts, refImages,
                   resp, client>>
    /\ UNCHANGED dmnVars

\* http.Client.Post returns the answer that was written, post turns its
\* status into nil or an error, and the command returns; the daemon process
\* that wrote the answer may have ended since.
postAnswered ==
    /\ client.pc = "wait"
    /\ req.pc = "answered"
    /\ PostReturns(PostErr(req))
    /\ req' = NoRequest
    /\ UNCHANGED <<charts, images, releases, ret, prev, refCharts, refImages,
                   resp>>
    /\ UNCHANGED dmnVars

\* The handler writes its answer to a connection the client has left.
answerDropped ==
    /\ req.pc = "called"
    /\ req.by \in alive
    /\ ~req.waited
    /\ req' = NoRequest
    /\ UNCHANGED <<charts, images, releases, ret, prev, refCharts, refImages,
                   resp, client>>
    /\ UNCHANGED dmnVars

\* The Timeout of the APIClient's http.Client expires before the answer has
\* been read: http.Client.Post returns an error and the command returns it;
\* a handler that has not answered goes on.
postTimeout ==
    /\ client.pc = "wait"
    /\ req.pc \in {"arrived", "called", "answered"}
    /\ PostReturns(ErrConnect)
    /\ req' = IF req.pc = "answered" THEN NoRequest
              ELSE [req EXCEPT !.waited = FALSE]
    /\ UNCHANGED <<charts, images, releases, ret, prev, refCharts, refImages,
                   resp>>
    /\ UNCHANGED dmnVars

\* The daemon process ended before it had answered: http.Client.Post
\* returns an error for the closed connection and the command returns it.
postReset ==
    /\ client.pc = "wait"
    /\ req.pc = "reset"
    /\ PostReturns(ErrConnect)
    /\ req' = NoRequest
    /\ UNCHANGED <<charts, images, releases, ret, prev, refCharts, refImages,
                   resp>>
    /\ UNCHANGED dmnVars

\* "helmfire remove chart <original>": globalSubstitutor, whatever the
\* daemon.
removeChartCmd(original) ==
    LET r == RemoveFrom(EmptyMap, original, ErrChartNotFound) IN
    /\ client.pc = "returned"
    /\ client' = Command("remove chart", original, "", "local", r.err, r.m,
                         EmptyMap, FALSE)
    /\ ClientAlone

\* "helmfire remove image <original>"
removeImageCmd(original) ==
    LET r == RemoveFrom(EmptyMap, original, ErrImageNotFound) IN
    /\ client.pc = "returned"
    /\ client' = Command("remove image", original, "", "local", r.err,
                         EmptyMap, r.m, FALSE)
    /\ ClientAlone

InitApi ==
    resp = NoResponse /\ client = NoCommand /\ lst = NoListing /\ req = NoRequest

\* The arguments the commands are run with: a chart directory and a regular
\* file, an image reference and the empty one.
CmdCharts == {<<"repo", "a">>}
CmdPaths == {<<"good">>, <<"plain">>}
CmdImages == {"", "nginx"}
CmdReplacements == {"r1"}

\* One daemon process coming and going, the registry commands run beside
\* it, one after the other, and the daemon's handler for their requests.
NextClient ==
    \/ /\ DaemonNext(1) \/ DaemonEnv(1)
       /\ req' = Closed(req, alive')
       /\ UNCHANGED <<cli, charts, images, releases, ret, prev, refCharts,
                      refImages, resp, client>>
    \/ \E o \in CmdCharts, p \in CmdPaths : chartCmd(o, p)
    \/ chartCmdProbe
    \/ chartCmdPost
    \/ \E o \in CmdImages, r \in CmdReplacements : imageCmd(o, r)
    \/ imageCmdProbe
    \/ imageCmdPost
    \/ handlePost
    \/ sendAnswer
    \/ postAnswered
    \/ answerDropped
    \/ postTimeout
    \/ postReset
    \/ \E o \in CmdCharts : removeChartCmd(o)
    \/ \E o \in CmdImages : removeImageCmd(o)

----------------------------------------------------------------------------
(* Specifications *)

InitAll == InitReg /\ InitSeq /\ InitConc /\ InitDet /\ InitDaemon /\ InitApi

SpecSeq ==
    InitAll /\ [][NextSeq /\ UNCHANGED concVars /\ UNCHANGED detVars
                           /\ UNCHANGED dmnVars /\ UNCHANGED <<resp, client, lst, sync, req>>]_vars

\* One SyncRelease at a time, and the registry calls of other goroutines.
SpecSync ==
    InitAll /\ [][NextSync /\ UNCHANGED concVars /\ UNCHANGED detVars
                            /\ UNCHANGED dmnVars /\ UNCHANGED <<resp, client, lst, req>>]_vars

SpecConc ==
    InitAll /\ [][NextConc /\ UNCHANGED seqVars /\ UNCHANGED detVars
                            /\ UNCHANGED dmnVars /\ UNCHANGED <<resp, client, lst, req>>]_vars

\* Goroutines calling the registry's image methods, scheduled fairly.
SpecConcFair ==
    /\ InitAll
    /\ [][NextConcImages /\ UNCHANGED seqVars /\ UNCHANGED detVars
                   /\ UNCHANGED dmnVars /\ UNCHANGED <<resp, client, lst, req>>]_vars
    /\ CallStepsFairness

SpecDet ==
    InitAll /\ [][NextDet /\ UNCHANGED regVars /\ UNCHANGED seqVars
                           /\ UNCHANGED concVars /\ UNCHANGED dmnVars /\ UNCHANGED <<resp, client, lst, req>>]_vars

InitTickAll == InitReg /\ InitSeq /\ InitConc /\ InitTick /\ InitDaemon /\ InitApi

SpecTick ==
    /\ InitTickAll
    /\ [][NextTick /\ UNCHANGED regVars /\ UNCHANGED seqVars
                   /\ UNCHANGED concVars /\ UNCHANGED dmnVars /\ UNCHANGED <<resp, client, lst, req>>]_vars

InitLiveAll == InitReg /\ InitSeq /\ InitConc /\ InitLive /\ InitDaemon /\ InitApi

SpecLive ==
    /\ InitLiveAll
    /\ [][NextLive /\ UNCHANGED regVars /\ UNCHANGED seqVars
                   /\ UNCHANGED concVars /\ UNCHANGED dmnVars /\ UNCHANGED <<resp, client, lst, req>>]_vars
    /\ LoopFairness

\* SpecLive with every goroutine scheduled.
SpecExit ==
    /\ InitLiveAll
    /\ [][NextLive /\ UNCHANGED regVars /\ UNCHANGED seqVars
                   /\ UNCHANGED concVars /\ UNCHANGED dmnVars /\ UNCHANGED <<resp, client, lst, req>>]_vars
    /\ LoopFairness /\ ExitFairness /\ CallFairness

InitSevAll == InitReg /\ InitSeq /\ InitConc /\ InitSev /\ InitDaemon /\ InitApi

SpecSev ==
    /\ InitSevAll
    /\ [][NextSev /\ UNCHANGED regVars /\ UNCHANGED seqVars
                           /\ UNCHANGED concVars /\ UNCHANGED dmnVars /\ UNCHANGED <<resp, client, lst, req>>]_vars

\* Daemon processes on one PID file.
SpecDaemon ==
    /\ InitAll
    /\ [][NextDaemon /\ UNCHANGED regVars /\ UNCHANGED seqVars
                      /\ UNCHANGED concVars /\ UNCHANGED detVars
                      /\ UNCHANGED <<resp, client, lst, req>>]_vars

\* Daemon processes started on the PID file a crashed daemon left.
InitStaleAll == InitReg /\ InitSeq /\ InitConc /\ InitDet /\ InitStale /\ InitApi

SpecStale ==
    /\ InitStaleAll
    /\ [][NextDaemon /\ UNCHANGED regVars /\ UNCHANGED seqVars
                      /\ UNCHANGED concVars /\ UNCHANGED detVars
                      /\ UNCHANGED <<resp, client, lst, req>>]_vars

\* Requests to the API of one daemon, one at a time.
SpecApi ==
    /\ InitAll
    /\ [][NextApi /\ UNCHANGED concVars /\ UNCHANGED detVars
                   /\ UNCHANGED dmnVars /\ UNCHANGED <<client, sync, req>>]_vars

\* A list or status request served beside adding and removing requests.
SpecList ==
    /\ InitAll
    /\ [][NextList /\ UNCHANGED concVars /\ UNCHANGED detVars
                   /\ UNCHANGED dmnVars /\ UNCHANGED <<client, sync, req>>]_vars

\* One daemon process and the registry commands of the CLI.
SpecClient ==
    /\ InitAll
    /\ [][NextClient /\ UNCHANGED concVars /\ UNCHANGED detVars
                     /\ UNCHANGED <<lst, sync>>]_vars

\* One daemon process, the errors of its Stop, and Stop called again.
SpecStopErr ==
    /\ InitAll
    /\ [][NextStopErr /\ UNCHANGED regVars /\ UNCHANGED seqVars
                      /\ UNCHANGED concVars /\ UNCHANGED detVars
                      /\ UNCHANGED <<resp, client, lst, req>>]_vars

\* One daemon process and the commands that probe and stop it.
SpecStopd ==
    /\ InitAll
    /\ [][NextStopd /\ UNCHANGED regVars /\ UNCHANGED seqVars
                     /\ UNCHANGED concVars /\ UNCHANGED detVars
                      /\ UNCHANGED <<resp, client, lst, req>>]_vars

----------------------------------------------------------------------------
(* Claims about concurrent registry calls, checked under SpecConc *)

\* C7: the result of every ListCharts / ListImages call is the content of its
\* map at one instant of the call, the instant it releases the read lock: it
\* holds one entry per key of the map with the value mapped then, so it shows
\* each concurrent add or remove entirely or not at all.
C7_ListIsSnapshot ==
    \A g \in Goroutines :
        gor[g].pc = "unlock" =>
            /\ gor[g].op = "ListCharts" =>
                   /\ ListedCharts(gor[g].result) = AsPairs(charts)
                   /\ Len(gor[g].result) = Cardinality(DOMAIN charts)
            /\ gor[g].op = "ListImages" =>
                   /\ ListedImages(gor[g].result) = AsPairs(images)
                   /\ Len(gor[g].result) = Cardinality(DOMAIN images)

\* C7 witness: a ListImages call has its result of one entry ready while
\* another goroutine's writer call on the same map waits for the lock.
C7_Witness ==
    \E g, h \in Goroutines :
        /\ gor[g].pc = "unlock" /\ gor[g].op = "ListImages"
        /\ Len(gor[g].result) = 1
        /\ gor[h].pc = "drain" /\ gor[h].op \in {"AddImage", "RemoveImage"}

\* C8: with goroutines interleaving AddImage and GetImageReplacement calls,
\* no call hits a concurrent map access, and every GetImageReplacement that
\* reports found returns a replacement that an AddImage call which has
\* returned wrote for that original.
C8_GetReturnsCompletedWrite ==
    /\ ~panicked
    /\ \A g \in Goroutines :
           (gor[g].pc = "unlock" /\ gor[g].op = "GetImageReplacement" /\ gor[g].ok)
           => <<gor[g].original, gor[g].val>> \in completed

\* C8 witness: a GetImageReplacement found a value while another goroutine's
\* AddImage for the same original, with another value, waits for the lock.
C8_Witness ==
    \E g, h \in Goroutines :
        /\ gor[g].pc = "unlock" /\ gor[g].op = "GetImageReplacement" /\ gor[g].ok
        /\ gor[h].pc = "drain" /\ gor[h].op = "AddImage"
        /\ gor[h].original = gor[g].original
        /\ gor[h].arg # gor[g].val

----------------------------------------------------------------------------
(* Claims about the drift detector, checked under SpecDet *)

\* Caller c makes its Start call in this step.
StartCalled(c) ==
    /\ callers[c].pc = "idle"
    /\ dcalls' = dcalls + 1
    /\ callers'[c].call = dcalls'
    /\ callers'[c].op = "Start"

C10_StartWhileRunning ==
    \A c \in Callers :
        (StartCalled(c) /\ dRunning) =>
            /\ callers'[c] = CallerIdle(dcalls', "Start", ErrAlreadyRunning)
            /\ UNCHANGED detState

\* C10: Start on a detector whose running flag is set returns the
\* already-running error and changes nothing: running, the context and its
\* cancel function, the WaitGroup and the run loops stay as they were, so the
\* existing loop keeps its context and no second loop is started.
C10_SecondStartRejected == [][C10_StartWhileRunning]_vars

\* C10 witness: a Start was refused while the loop of the earlier Start is
\* alive and its context is not cancelled.
C10_Witness ==
    /\ \E c \in Callers :
           /\ callers[c].pc = "idle" /\ callers[c].op = "Start"
           /\ callers[c].err = ErrAlreadyRunning
    /\ dRunning
    /\ Len(loops) = 1
    /\ loops[1].pc = "select"
    /\ ~CtxDone(dCtx)

\* Caller c makes its Stop call in this step.
StopCalled(c) ==
    /\ callers[c].pc = "idle"
    /\ dcalls' = dcalls + 1
    /\ callers'[c].call = dcalls'
    /\ callers'[c].op = "Stop"

\* No Start has made a context yet, or a Stop has returned nil since the
\* latest Start that did.
NeverStartedOrStopped == hist.started = 0 \/ hist.stopped >= hist.started

C11_StopWhenNotRunning ==
    \A c \in Callers :
        StopCalled(c) =>
            IF NeverStartedOrStopped
            THEN /\ callers'[c] = CallerIdle(dcalls', "Stop", ErrNotRunning)
                 /\ UNCHANGED <<detState, parentDone, hist>>
            ELSE callers'[c] = CallerAt(dcalls', "cancel", "Stop")

\* C11: Stop on a detector that was never started, or that a Stop has
\* stopped since its latest Start, returns the not-running error and changes
\* nothing; in every other case the call gets past the check and goes on to
\* cancel, so only a Stop called on a running detector can return nil.
C11_StopNotRunningRejected == [][C11_StopWhenNotRunning]_vars

\* C11 witness: a Stop was refused after an earlier Stop had returned nil.
C11_Witness ==
    /\ \E c \in Callers :
           /\ callers[c].pc = "idle" /\ callers[c].op = "Stop"
           /\ callers[c].err = ErrNotRunning
    /\ hist.started > 0
    /\ hist.stopped >= hist.started

\* Loop l calls a collaborator in this step: helm diff, a notifier or the
\* heal function.
LoopCalls(l) == Len(loops'[l].log) > Len(loops[l].log)

C12_CallsOnlyBeforeStopReturns ==
    \A l \in 1..Len(loops) :
        LoopCalls(l) => loops[l].start > hist.stopped

\* C12: once a Stop has returned nil, no loop launched by a Start that was
\* called before that return runs a diff, notifies or heals: Stop returns
\* only after the loop it cancels has finished its check and exited.
C12_StopJoinsLoop == [][C12_CallsOnlyBeforeStopReturns]_vars

\* A Stop has returned nil since the latest Start that made a context.
Stopped == hist.started > 0 /\ hist.stopped >= hist.started

C13_NoStartWhenStopped ==
    \A c \in Callers :
        (StartCalled(c) /\ Stopped) =>
            /\ ~dRunning'
            /\ callers'[c].pc # "spawn"

\* C13 as stated: the stopped state is terminal: a Start called on a
\* detector that a Stop has stopped does not set it running again and does
\* not go on to launch a loop.
C13_StoppedIsTerminal == [][C13_NoStartWhenStopped]_vars

C13_NotRunningWhenStopped == Stopped => ~dRunning

\* ctx.Done() of the detector's context after the step.
NewCtxDone == dCtx' \in cancelled' \/ parentDone'

C13_StartWhenStopped ==
    \A c \in Callers :
        /\ (StartCalled(c) /\ Stopped) =>
               /\ dRunning'
               /\ dCtx' # dCtx /\ dCtx' \notin cancelled'
               /\ NewCtxDone <=> parentDone
               /\ dCancel' = dCtx'
               /\ callers'[c] = CallerAt(dcalls', "spawn", "Start")
        /\ (callers[c].pc = "spawn" /\ callers'[c].pc = "idle") =>
               /\ callers'[c].err = Nil
               /\ Len(loops') = Len(loops) + 1
               /\ loops'[Len(loops')].pc = "initial"
               /\ SubSeq(loops', 1, Len(loops)) = loops

\* C13 as amended: the stopped state is not terminal.  A detector that a
\* Stop has stopped is not running until the next Start; that Start sets it
\* running again with a new context, one that no Stop has cancelled and
\* that is done exactly when the context passed to Start is, and goes on
\* to launch exactly one new loop and return nil.
C13_StartAfterStopRestarts ==
    []C13_NotRunningWhenStopped /\ [][C13_StartWhenStopped]_vars

\* C13 witness: the loop of a Start called after a Stop had returned nil
\* is past its initial check, on a running detector whose context is not
\* done.
C13_Witness ==
    /\ dRunning
    /\ hist.stopped > 0
    /\ ~CtxDone(dCtx)
    /\ \E l \in 1..Len(loops) :
           /\ loops[l].start > hist.stopped
           /\ loops[l].pc = "select"

\* Loop l begins a check in this step: it comes to the diff of its first
\* release, its log of events afresh.
CheckBegins(l) ==
    loops[l].pc # "diff" /\ loops'[l].pc = "diff" /\ loops'[l].log = <<>>

C14_StartThenChecks ==
    /\ \A c \in Callers :
           /\ (StartCalled(c) /\ ~dRunning) =>
                  dRunning' /\ callers'[c] = CallerAt(dcalls', "spawn", "Start")
           /\ (callers[c].pc = "spawn" /\ callers'[c].pc = "idle") =>
                  /\ callers'[c].err = Nil
                  /\ loops' = Append(loops, NewLoop(callers[c].call))
    /\ \A l \in 1..Len(loops) :
           /\ (loops[l].pc = "initial" /\ loops'[l].pc # "initial") =>
                  CheckBegins(l) /\ loops'[l].tick = loops[l].tick
           /\ loops[l].pc # "initial" => loops'[l].pc # "initial"
           /\ (loops[l].pc = "select" /\ loops'[l].pc \notin {"select", "exited"}) =>
                  CheckBegins(l) /\ loops[l].tick /\ ~loops'[l].tick
           /\ (loops[l].tick /\ ~loops'[l].tick) =>
                  /\ loops[l].pc = "select"
                  /\ CheckBegins(l) \/ loops'[l].pc = "exited"
           /\ CheckBegins(l) => loops[l].pc \in {"initial", "select"}

\* C14: a Start that finds the detector not running sets it running and
\* launches one loop before it returns nil.  The first step of the loop is a
\* check, begun without taking a tick from the ticker, and it is the only
\* such check; every later check begins by taking one tick from ticker.C at
\* the select, and a tick is taken by nothing but the beginning of a check
\* (or discarded when the loop exits): one check per tick delivered.
C14_ImmediateThenPerTick == [][C14_StartThenChecks]_vars

\* C14 witness: the loop is in a check that it began by taking a tick, the
\* next tick already waiting, on a running detector.
C14_Witness ==
    /\ dRunning
    /\ \E l \in 1..Len(loops) :
           /\ loops[l].by = "tick"
           /\ loops[l].pc = "heal"
           /\ loops[l].tick
           /\ \E c \in Callers : callers[c].op = "Start" /\ callers[c].pc = "idle"
                                 /\ callers[c].call = loops[l].start

\* ---------------------------------------------------------------------
\* What one check did, read from the events of the loop that made it.

\* The check a loop began last has returned to run's select.
CheckDone(l) == loops[l].pc = "select" /\ loops[l].by # None

\* The events of one kind about one unit, in order.
EventsOf(log, ev, unit) ==
    LET Is(e) == e.ev = ev /\ e.unit = unit IN SelectSeq(log, Is)

\* The Notify calls that passed a report of the unit with the given healed
\* flag, in order.
Deliveries(log, unit, healed) ==
    LET Is(e) == e.ev = "notify" /\ e.unit = unit /\ e.rep[1].Healed = healed
    IN SelectSeq(log, Is)

\* The notifiers the calls went to, in order.
Receivers(sent) == [j \in 1..Len(sent) |-> sent[j].to]

\* The first n notifiers registered, in registration order.
Registered(n) == [j \in 1..n |-> notifiers[j].id]

\* A unit is marked installed unless its flag is present and false.
MarkedInstalled(r) == r.Installed # "false"

\* C15 for one unit of a finished check.
C15_UnitChecked(log, r) ==
    LET diffs == EventsOf(log, "diff", r.Name)
        sent == Deliveries(log, r.Name, FALSE) IN
    IF ~MarkedInstalled(r) THEN Len(diffs) = 0 /\ Len(sent) = 0
    ELSE /\ Len(diffs) = 1
         /\ ~diffs[1].err /\ diffs[1].diff = 0 =>
                diffs[1].rep = <<>> /\ Len(sent) = 0
         /\ ~diffs[1].err /\ diffs[1].diff > 0 =>
                /\ Len(diffs[1].rep) = 1
                /\ diffs[1].rep[1].ReleaseName = r.Name
                /\ diffs[1].rep[1].Namespace = r.Namespace
                /\ diffs[1].rep[1].Healed = FALSE
                /\ diffs[1].rep[1].DriftType = DriftTypeConfiguration
                /\ diffs[1].rep[1].Diff = diffs[1].diff
                /\ Receivers(sent) = Registered(diffs[1].to)
                /\ \A j \in 1..Len(sent) : sent[j].rep = diffs[1].rep

\* C15: in one check, every unit marked installed (an absent flag counts as
\* installed) is diffed once; a non-empty diff makes exactly one detection
\* report of the unit, with healed false and drift type configuration,
\* passed once to every notifier registered when handleDriftReport took its
\* copy; an empty diff makes no report; a unit marked not installed has no
\* diff and no report, at any moment of the check.
C15_ReportPerDriftingUnit ==
    \A l \in 1..Len(loops) :
        \A j \in 1..Len(loops[l].rels) :
            LET r == loops[l].rels[j] IN
            /\ ~MarkedInstalled(r) =>
                   \A e \in 1..Len(loops[l].log) : loops[l].log[e].unit # r.Name
            /\ CheckDone(l) => C15_UnitChecked(loops[l].log, r)

\* A check begun by a tick has finished: the unit marked not installed was
\* passed over, and the one report of the drifting unit went to both
\* notifiers, unhealed.
C15_Witness ==
    \E l \in 1..Len(loops) :
        /\ CheckDone(l)
        /\ loops[l].by = "tick"
        /\ dManager = ManagerOf(<<DetRelease("old", "web", "false"),
                                  DetRelease("nginx", "web", "true")>>)
        /\ Len(notifiers) = 2
        /\ Len(loops[l].log) = 3
        /\ loops[l].log[1].ev = "diff"
        /\ loops[l].log[1].unit = "nginx"
        /\ loops[l].log[1].diff > 0
        /\ loops[l].log[2].ev = "notify" /\ ~loops[l].log[2].rep[1].Healed
        /\ loops[l].log[3].ev = "notify" /\ ~loops[l].log[3].rep[1].Healed
        /\ loops[l].log[2].to # loops[l].log[3].to

\* ---------------------------------------------------------------------
\* Severity of a report.

\* A report was made of a diff of the given length.
ReportOfLength(n) ==
    checked.done /\ Len(checked.report) = 1 /\ checked.report[1].Diff = n

\* C16 as stated: severity is low for a diff shorter than 100, medium from
\* 100 and shorter than 1000, high from 1000, for every diff length.
C16_ThresholdsInclusive ==
    \A n \in 1..MaxDiffLen :
        ReportOfLength(n) =>
            checked.report[1].Severity =
                IF n < 100 THEN SeverityLow
                ELSE IF n < 1000 THEN SeverityMedium
                ELSE SeverityHigh

\* C16 as the code has it: severity is low for a diff of at most 100 bytes,
\* medium for more than 100 and at most 1000, high for more than 1000.
C16_ThresholdsExclusive ==
    \A n \in 1..MaxDiffLen :
        ReportOfLength(n) =>
            /\ n <= 100 => checked.report[1].Severity = SeverityLow
            /\ n > 100 /\ n <= 1000 => checked.report[1].Severity = SeverityMedium
            /\ n > 1000 => checked.report[1].Severity = SeverityHigh

\* A diff of exactly 1000 bytes was reported with severity medium.
C16_Witness ==
    ReportOfLength(1000) /\ checked.report[1].Severity = SeverityMedium

\* ---------------------------------------------------------------------
\* Dispatch of a report to the notifiers.

IsPrefix(s, t) == Len(s) <= Len(t) /\ \A j \in 1..Len(s) : s[j] = t[j]

\* The diff events of a check that made a report.
Reported(log) ==
    LET Is(e) == e.ev = "diff" /\ Len(e.rep) = 1 IN SelectSeq(log, Is)

\* The last event a loop logged is a Notify call that failed.
NotifyFailed(l) ==
    /\ l <= Len(loops)
    /\ Len(loops'[l].log) = Len(loops[l].log) + 1
    /\ loops'[l].log[Len(loops'[l].log)].ev = "notify"
    /\ loops'[l].log[Len(loops'[l].log)].err

\* At every moment the Notify calls made with a report went to the
\* notifiers registered when handleDriftReport copied them, from the first
\* on in registration
\* order, whatever the earlier calls returned; once the check is over none
\* was left out, and every unit marked installed was diffed.
C17_DispatchInOrder ==
    \A l \in 1..Len(loops) :
        /\ \A d \in 1..Len(Reported(loops[l].log)) :
               LET rd == Reported(loops[l].log)[d]
                   first == Receivers(Deliveries(loops[l].log, rd.unit, FALSE))
                   second == Receivers(Deliveries(loops[l].log, rd.unit, TRUE)) IN
               /\ IsPrefix(first, Registered(rd.to))
               /\ IsPrefix(second, Registered(rd.to))
               /\ CheckDone(l) =>
                      /\ first = Registered(rd.to)
                      /\ second \in {<<>>, Registered(rd.to)}
        /\ CheckDone(l) =>
               \A j \in 1..Len(loops[l].rels) :
                   MarkedInstalled(loops[l].rels[j]) =>
                       Len(EventsOf(loops[l].log, "diff",
                                    loops[l].rels[j].Name)) = 1

\* A Notify call that fails leaves the detector as it is and its loop
\* running.
C17_FailureStopsNothing ==
    \A l \in 1..Len(loops) :
        NotifyFailed(l) =>
            /\ loops'[l].pc # "exited"
            /\ UNCHANGED <<dRunning, dCtx, dCancel, cancelled, wg, dConf>>

\* C17: each report is passed to every registered notifier in registration
\* order; a Notify that returns an error keeps no later notifier from
\* getting the same report, does not end the check and does not stop the
\* detector.
C17_NotifierErrorsTolerated ==
    []C17_DispatchInOrder /\ [][C17_FailureStopsNothing]_vars

\* The first notifier registered failed on the report of the first unit;
\* the second notifier got the same report after it, and the next unit was
\* diffed after that.
C17_Witness ==
    \E l \in 1..Len(loops) :
        /\ CheckDone(l)
        /\ dRunning
        /\ Len(notifiers) = 2
        /\ Len(loops[l].log) >= 4
        /\ loops[l].log[1].ev = "diff" /\ Len(loops[l].log[1].rep) = 1
        /\ loops[l].log[2].ev = "notify" /\ loops[l].log[2].err
        /\ loops[l].log[2].to = notifiers[1].id
        /\ loops[l].log[3].ev = "notify" /\ ~loops[l].log[3].err
        /\ loops[l].log[3].to = notifiers[2].id
        /\ loops[l].log[3].rep = loops[l].log[2].rep
        /\ loops[l].log[4].ev = "diff"
        /\ loops[l].log[4].unit # loops[l].log[1].unit

\* ---------------------------------------------------------------------
\* Auto-heal.

\* The Notify calls one notifier got about one unit, in order.
ToNotifier(log, unit, n) ==
    LET Is(e) == e.ev = "notify" /\ e.unit = unit /\ e.to = n
    IN SelectSeq(log, Is)

\* The healFunc calls of a check with the given outcome.
Heals(log, err) ==
    LET Is(e) == e.ev = "heal" /\ e.err = err IN SelectSeq(log, Is)

\* The position of the first event of a kind about a unit.
FirstOf(log, ev, unit) ==
    CHOOSE j \in 1..Len(log) :
        /\ log[j].ev = ev /\ log[j].unit = unit
        /\ \A i \in 1..(j - 1) : ~(log[i].ev = ev /\ log[i].unit = unit)

\* handleDriftReport takes up a report: the loop copies the settings and
\* logs the diff of the unit with the report.
ReportMade(l) ==
    /\ l <= Len(loops)
    /\ Len(loops'[l].log) = Len(loops[l].log) + 1
    /\ loops'[l].log[Len(loops'[l].log)].ev = "diff"
    /\ Len(loops'[l].log[Len(loops'[l].log)].rep) = 1

\* Once healFunc has succeeded for a unit and the check is over, every
\* notifier the report was due to got two reports of the unit: the
\* detection, then the same report with healed true and other details.
C18_TwoReportsInOrder ==
    \A l \in 1..Len(loops) :
        CheckDone(l) =>
            \A h \in 1..Len(Heals(loops[l].log, FALSE)) :
                LET log == loops[l].log
                    unit == Heals(log, FALSE)[h].unit
                    made == log[FirstOf(log, "diff", unit)] IN
                \A j \in 1..made.to :
                    LET got == ToNotifier(log, unit, notifiers[j].id) IN
                    /\ Len(got) = 2
                    /\ got[1].rep = made.rep
                    /\ got[1].rep[1].Healed = FALSE
                    /\ got[2].rep[1].Healed = TRUE
                    /\ got[2].rep[1].ReleaseName = made.rep[1].ReleaseName
                    /\ got[2].rep[1].Namespace = made.rep[1].Namespace
                    /\ got[2].rep[1].DriftType = made.rep[1].DriftType
                    /\ got[2].rep[1].Severity = made.rep[1].Severity
                    /\ got[2].rep[1].Diff = made.rep[1].Diff
                    /\ got[2].rep[1].Details # made.rep[1].Details

\* healFunc is called for a report exactly when auto-heal is on with a
\* function at the moment the report is handled: the loop copies the
\* settings when the report is made, and goes from the detection round to
\* healFunc when the copy has both.
C18_HealsWhenEnabled ==
    \A l \in 1..Len(loops) :
        /\ ReportMade(l) =>
               /\ loops'[l].pc \in {"notify", "heal", "diff", "select"}
               /\ loops'[l].pc = "notify" =>
                      loops'[l].snap = Snapshot(notifiers, autoHeal, healFunc)
               /\ Len(notifiers) = 0 =>
                      (loops'[l].pc = "heal" <=> autoHeal /\ healFunc # Nil)
        /\ loops[l].pc = "notify" /\ loops'[l].pc # "notify" =>
               (loops'[l].pc = "heal" <=>
                    loops[l].snap.autoHeal /\ loops[l].snap.healFunc # Nil)
        /\ loops[l].pc = "heal" /\ loops'[l].pc # "heal" =>
               /\ Len(loops'[l].log) = Len(loops[l].log) + 1
               /\ loops'[l].log[Len(loops'[l].log)].ev = "heal"
               /\ loops'[l].log[Len(loops'[l].log)].unit = loops[l].rep[1].ReleaseName

\* C18: with auto-heal on and a healFunc that succeeds, each notifier gets
\* exactly two reports per drifting unit per check, in order: the detection
\* with healed false, then a report equal in unit, namespace, type, severity
\* and diff with healed true and updated details.
C18_DetectionThenHealed ==
    []C18_TwoReportsInOrder /\ [][C18_HealsWhenEnabled]_vars

\* A check begun by a tick is over in which healFunc succeeded for the
\* drifting unit and both notifiers got the detection and then the healed
\* report.
C18_Witness ==
    \E l \in 1..Len(loops) :
        /\ CheckDone(l)
        /\ loops[l].by = "tick"
        /\ autoHeal /\ healFunc # Nil
        /\ Len(notifiers) = 2
        /\ Len(loops[l].log) = 6
        /\ loops[l].log[1].ev = "diff" /\ loops[l].log[1].to = 2
        /\ loops[l].log[2].ev = "notify" /\ ~loops[l].log[2].rep[1].Healed
        /\ loops[l].log[3].ev = "notify" /\ ~loops[l].log[3].rep[1].Healed
        /\ loops[l].log[4].ev = "heal" /\ ~loops[l].log[4].err
        /\ loops[l].log[5].ev = "notify" /\ loops[l].log[5].rep[1].Healed
        /\ loops[l].log[6].ev = "notify" /\ loops[l].log[6].rep[1].Healed

\* ---------------------------------------------------------------------
\* Auto-heal that fails.

\* A loop logs a healFunc call that failed.
HealFailed(l) ==
    /\ l <= Len(loops)
    /\ Len(loops'[l].log) = Len(loops[l].log) + 1
    /\ loops'[l].log[Len(loops'[l].log)].ev = "heal"
    /\ loops'[l].log[Len(loops'[l].log)].err

\* Of the releases a check took there is one marked installed after
\* position i.
InstalledAfter(rels, i) ==
    \E j \in (i + 1)..Len(rels) : MarkedInstalled(rels[j])

\* After healFunc has failed for a unit no notifier gets a report of it
\* with healed true; once the check is over every notifier the report was
\* due to got exactly one report of the unit, the detection, and every unit
\* marked installed was diffed.
C19_OneReportUnhealed ==
    \A l \in 1..Len(loops) :
        \A h \in 1..Len(Heals(loops[l].log, TRUE)) :
            LET log == loops[l].log
                unit == Heals(log, TRUE)[h].unit
                made == log[FirstOf(log, "diff", unit)] IN
            /\ Len(Deliveries(log, unit, TRUE)) = 0
            /\ CheckDone(l) =>
                   /\ \A j \in 1..made.to :
                          LET got == ToNotifier(log, unit, notifiers[j].id) IN
                          /\ Len(got) = 1
                          /\ got[1].rep = made.rep
                          /\ got[1].rep[1].Healed = FALSE
                   /\ \A j \in 1..Len(loops[l].rels) :
                          MarkedInstalled(loops[l].rels[j]) =>
                              Len(EventsOf(log, "diff",
                                           loops[l].rels[j].Name)) = 1

\* When healFunc fails the loop goes straight on to the diff of the next
\* unit marked installed, or back to select after the last, and the
\* detector is left as it is.
C19_FailureMovesOn ==
    \A l \in 1..Len(loops) :
        HealFailed(l) =>
            /\ loops'[l].pc = IF InstalledAfter(loops[l].rels, loops[l].i) THEN "diff" ELSE "select"
            /\ loops'[l].i > loops[l].i \/ loops'[l].pc = "select"
            /\ UNCHANGED <<dRunning, dCtx, dCancel, cancelled, wg, dConf>>

\* C19: when healFunc returns an error the report is not passed on again:
\* each notifier gets exactly one report of the unit in the check, with
\* healed false, none with healed true, and the check goes on with the next
\* unit.
C19_HealFailureNotRedispatched ==
    []C19_OneReportUnhealed /\ [][C19_FailureMovesOn]_vars

\* healFunc failed for the first unit after both notifiers got its
\* detection, and the check went on to diff the second unit and ended.
C19_Witness ==
    \E l \in 1..Len(loops) :
        /\ CheckDone(l)
        /\ Len(notifiers) = 2
        /\ Len(loops[l].log) >= 5
        /\ loops[l].log[1].ev = "diff" /\ loops[l].log[1].to = 2
        /\ loops[l].log[2].ev = "notify"
        /\ loops[l].log[3].ev = "notify"
        /\ loops[l].log[4].ev = "heal" /\ loops[l].log[4].err
        /\ loops[l].log[5].ev = "diff"
        /\ loops[l].log[5].unit # loops[l].log[1].unit

\* ---------------------------------------------------------------------
\* A diff that fails.

\* The diffs of a check that failed.
FailedDiffs(log) ==
    LET Is(e) == e.ev = "diff" /\ e.err IN SelectSeq(log, Is)

\* A loop logs a diff that failed.
DiffFailed(l) ==
    /\ l <= Len(loops)
    /\ Len(loops'[l].log) = Len(loops[l].log) + 1
    /\ loops'[l].log[Len(loops'[l].log)].ev = "diff"
    /\ loops'[l].log[Len(loops'[l].log)].err

\* A unit whose diff failed has no report, no Notify call and no healFunc
\* call in the check; once the check is over every other unit was handled
\* as in a check without a failure: diffed once if marked installed, and
\* reported to every notifier if its diff was not empty.
C20_OnlyFailedUnitSkipped ==
    \A l \in 1..Len(loops) :
        \A f \in 1..Len(FailedDiffs(loops[l].log)) :
            LET log == loops[l].log
                unit == FailedDiffs(log)[f].unit IN
            /\ FailedDiffs(log)[f].rep = <<>>
            /\ Len(EventsOf(log, "notify", unit)) = 0
            /\ Len(EventsOf(log, "heal", unit)) = 0
            /\ CheckDone(l) =>
                   \A j \in 1..Len(loops[l].rels) :
                       loops[l].rels[j].Name # unit =>
                           C15_UnitChecked(log, loops[l].rels[j])

\* When a diff fails the loop goes on to the diff of the next unit marked
\* installed, or back to select after the last, and the detector stays as
\* it is: running if it was.
C20_FailureMovesOn ==
    \A l \in 1..Len(loops) :
        DiffFailed(l) =>
            /\ loops'[l].pc = IF InstalledAfter(loops[l].rels, loops[l].i) THEN "diff" ELSE "select"
            /\ loops'[l].pc = "diff" => loops'[l].i > loops[l].i
            /\ UNCHANGED <<dRunning, dCtx, dCancel, cancelled, wg, dConf>>

\* C20: an error of the diff for one unit skips only that unit in the check
\* (no report, no heal for it); every other installed unit of the check is
\* still diffed and reported as without the failing unit, and the detector
\* stays running.
C20_DiffErrorIsolated ==
    []C20_OnlyFailedUnitSkipped /\ [][C20_FailureMovesOn]_vars

\* The diff of the first unit failed; the second unit was then diffed and
\* its report passed to a notifier, and the detector is still running.
C20_Witness ==
    \E l \in 1..Len(loops) :
        /\ CheckDone(l)
        /\ dRunning
        /\ Len(loops[l].log) >= 3
        /\ loops[l].log[1].ev = "diff" /\ loops[l].log[1].err
        /\ loops[l].log[2].ev = "diff" /\ Len(loops[l].log[2].rep) = 1
        /\ loops[l].log[2].unit # loops[l].log[1].unit
        /\ loops[l].log[3].ev = "notify"
        /\ loops[l].log[3].unit = loops[l].log[2].unit

\* ---------------------------------------------------------------------
\* The loop keeps ticking.

\* A tick waits in the ticker of a loop that has not returned.
TickWaits(l) == l <= Len(loops) /\ loops[l].pc # "exited" /\ loops[l].tick

\* The loop took the tick and began a check with it.
TickTaken(l) == l <= Len(loops) /\ loops[l].by = "tick" /\ ~loops[l].tick

\* The detector was stopped or its context cancelled.
LoopReleased(l) ==
    l <= Len(loops) /\ (loops[l].pc = "exited" \/ CtxDone(dCtx))

\* Every tick that waits is taken by a check, unless the detector is
\* stopped or cancelled.
C21_TickEventuallyTaken ==
    \A l \in 1..MaxDetCalls : TickWaits(l) ~> (TickTaken(l) \/ LoopReleased(l))

\* Only Stop and cancellation end the running: the detector is not running
\* only when it was never started or a Stop cleared it since, and a loop has
\* returned only when a context was cancelled, whatever failed in its
\* checks.
C21_OnlyStopEndsRunning ==
    /\ ~dRunning => NeverStartedOrStopped
    /\ \A l \in 1..Len(loops) :
           loops[l].pc = "exited" => parentDone \/ cancelled # {}

\* C21: while the detector is running and was not stopped or cancelled,
\* every expiry of the interval is followed by a check, however many diffs,
\* Notify calls or healFunc calls of earlier checks failed; no such failure
\* takes the detector out of running.
C21_KeepsTicking ==
    C21_TickEventuallyTaken /\ []C21_OnlyStopEndsRunning

\* A check begun by a tick is over in which a Notify, a healFunc and a diff
\* failed; the detector is running, not cancelled, and the next tick waits.
C21_Witness ==
    \E l \in 1..Len(loops) :
        /\ CheckDone(l)
        /\ loops[l].by = "tick"
        /\ loops[l].tick
        /\ dRunning
        /\ ~CtxDone(dCtx)
        /\ \E e \in 1..Len(loops[l].log) :
               loops[l].log[e].ev = "notify" /\ loops[l].log[e].err
        /\ \E e \in 1..Len(loops[l].log) :
               loops[l].log[e].ev = "heal" /\ loops[l].log[e].err
        /\ \E e \in 1..Len(loops[l].log) :
               loops[l].log[e].ev = "diff" /\ loops[l].log[e].err

----------------------------------------------------------------------------
(* Claims about the daemon's Start, checked under SpecDaemon *)

\* The pid the PID file records, when it parses.
Recorded == Atoi(TrimSpace(pidFile[1])).n

\* The PID file is there and the process it records is alive.
LockHeld ==
    /\ pidFile # NoFile
    /\ Atoi(TrimSpace(pidFile[1])).ok
    /\ Recorded \in alive

\* The PID file is there, records a pid, and no such process is alive.
LockStale ==
    /\ pidFile # NoFile
    /\ Atoi(TrimSpace(pidFile[1])).ok
    /\ Recorded \notin alive

\* The process of daemon p takes the first step of its Start: IsRunning
\* reads the PID file.
StartChecks(p) ==
    /\ dmn[p].pc = "start"
    /\ dmn'[p].pc \notin {"start", "gone"}

\* The process of daemon p takes the second step of its Start: IsRunning
\* probes the pid it read.
StartProbes(p) ==
    /\ dmn[p].pc = "probe"
    /\ dmn'[p].pc \notin {"probe", "gone"}

\* Start has returned nil and the process is in Wait: the daemon is Running.
Running(p) == dmn[p].pc = "wait"

\* The API server or the detector of daemon p has been started.
ComponentStarted(p) ==
    dmn[p].api # "new" \/ dmn[p].running \/ dmn[p].loop # "none"

\* Start has returned the already-running error.
Refused(p) == dmn[p].pc = "failed" /\ dmn[p].err = ErrDaemonRunning

C22_Refuses ==
    \A p \in Daemons :
        /\ (StartChecks(p) /\ LockHeld) =>
               /\ dmn'[p].pc = "probe"
               /\ dmn'[p].read = Recorded
               /\ pidFile' = pidFile
        /\ (StartProbes(p) /\ dmn[p].read \in alive) =>
               /\ dmn'[p].pc = "failed"
               /\ dmn'[p].err = ErrDaemonRunning
               /\ pidFile' = pidFile
        /\ (StartProbes(p) /\ dmn[p].read \notin alive) => dmn'[p].pc = "write"
        /\ (Refused(p) /\ dmn'[p] # dmn[p]) => pidFile' = pidFile

C22_NothingStarted ==
    \A p \in Daemons : Refused(p) => ~ComponentStarted(p)

\* C22: when the PID file exists and the process it records is alive, both
\* as IsRunning reads the file and as it probes the pid it read, Start
\* returns the already-running error, and the refused Start leaves the PID
\* file as it is and has started neither the API server nor the detector.
C22_RunningDaemonRefusesStart == []C22_NothingStarted /\ [][C22_Refuses]_vars

\* A second daemon was refused while the first is Running and recorded.
C22_Witness ==
    \E p, q \in Daemons :
        /\ Refused(p)
        /\ Running(q)
        /\ pidFile # NoFile /\ pidFile[1] = SprintfPID(PidOf(q))

\* The file holds what writePIDFile of daemon p writes.
OwnLock(file, p) == file # NoFile /\ file[1] = SprintfPID(PidOf(p))

\* Start of daemon p has written the PID file and has not returned yet, or
\* it has returned nil and the daemon is Running.
StartedOrStarting(p) == dmn[p].pc \in {"api", "det", "notify", "wait"}

\* The process of daemon p takes a step and lives on.
Steps(p) == dmn'[p] # dmn[p] /\ dmn'[p].pc # "gone"

\* No other daemon process was ever started.
Alone(p) == \A q \in Daemons \ {p} : dmn[q].pc = "none"

C23_StaleLockPassed ==
    \A p \in Daemons :
        /\ (StartChecks(p) /\ LockStale) =>
               dmn'[p].pc = "probe" /\ dmn'[p].read = Recorded
        /\ (StartProbes(p) /\ dmn[p].read \notin alive) => dmn'[p].pc = "write"
        /\ (dmn[p].pc = "write" /\ dmn'[p].pc = "writing") =>
               pidFile' # NoFile /\ pidFile'[1] = <<>> /\ dmn'[p].fd = pidFile'[2]
        /\ (dmn[p].pc = "writing" /\ dmn'[p].pc = "api") =>
               IF pidFile # NoFile /\ pidFile[2] = dmn[p].fd
               THEN OwnLock(pidFile', p) ELSE pidFile' = pidFile
        /\ (StartedOrStarting(p) /\ Steps(p)) =>
               /\ dmn'[p].pc # "failed"
               /\ pidFile' = pidFile

C23_OwnPidRecorded ==
    \A p \in Daemons :
        (StartedOrStarting(p) /\ Alone(p)) => OwnLock(pidFile, p)

\* C23: a Start that finds the PID file of a process that is not alive goes
\* on, empties the file and writes its own pid into it, and returns nil, and
\* the file then holds the pid of the starting process.
C23_StaleLockOverwritten ==
    []C23_OwnPidRecorded /\ [][C23_StaleLockPassed]_vars

\* The only daemon process ever started found the stale PID file and is
\* Running with its own pid in the file.
C23_Witness ==
    \E p \in Daemons : Running(p) /\ Alone(p) /\ OwnLock(pidFile, p)

\* Start of daemon p has returned: an error, or nil and main is in Wait.
StartReturned(p) == dmn[p].pc \in {"failed", "wait"}

\* A component daemon p started is running: the API server or its
\* goroutine, or the detector.
ComponentRunning(p) ==
    dmn[p].api \in {"spawned", "listening"} \/ dmn[p].running

\* C24: when the PID file could not be written, the API address could not be
\* bound or the detector could not be started, Start has returned an error,
\* the PID file does not hold what that Start wrote and nothing that Start
\* started is running.
C24_FailedStartLeavesNothing ==
    \A p \in Daemons :
        (StartReturned(p) /\ (dmn[p].api = "failed" \/ dmn[p].err # Nil)) =>
            /\ dmn[p].pc = "failed"
            /\ ~OwnLock(pidFile, p)
            /\ ~ComponentRunning(p)

\* C25: at most one daemon on the PID file is Running at any time, and the
\* PID file records the pid of the daemon that is Running.
C25_SingleInstance ==
    \A p, q \in Daemons :
        /\ (Running(p) /\ Running(q)) => p = q
        /\ Running(p) => OwnLock(pidFile, p)

----------------------------------------------------------------------------
(* Claims about the daemon's Wait and Stop and about the commands on its
   PID file, checked under SpecStopd *)

\* The detector of daemon p is stopped: not running, its loop not alive.
SchedulerStopped(p) == ~dmn[p].running /\ dmn[p].loop # "live"

\* Stop of daemon p stands before its apiServer.Stop().
StopBeforeAPI(p) == dmn[p].pc \in {"cancel", "stopdet", "stopwait"}

\* Stop of daemon p stands at or after its apiServer.Stop().
StopFromAPI(p) == dmn[p].pc \in {"stopapi", "rmpid", "done"}

\* The main goroutine of daemon p takes a step.
MainSteps(p) == dmn'[p].pc \notin {dmn[p].pc, "gone"}

\* The detector is stopped before the API server is shut down, and both
\* are when Stop comes to the PID file.
C26_TornDown ==
    \A p \in Daemons :
        /\ StopBeforeAPI(p) => dmn[p].api # "closed"
        /\ StopFromAPI(p) => SchedulerStopped(p)
        /\ dmn[p].pc \in {"rmpid", "done"} => dmn[p].api = "closed"

\* Stop leaves the PID file alone until its last step.
C26_FileKeptUntilLast ==
    \A p \in Daemons :
        ((StopBeforeAPI(p) \/ dmn[p].pc = "stopapi") /\ MainSteps(p)) =>
            pidFile' = pidFile

C26_AbsentAfterStop ==
    /\ C26_TornDown
    /\ \A p \in Daemons : dmn[p].pc = "done" => pidFile = NoFile

C26_LastStepRemoves ==
    /\ C26_FileKeptUntilLast
    /\ \A p \in Daemons :
           (dmn[p].pc = "rmpid" /\ MainSteps(p)) =>
               pidFile' = NoFile /\ dmn'[p].pc = "done"

\* C26 as stated: Stop has the detector stopped, its loop returned, before
\* it shuts the API server down, and removes the PID file after both; when
\* Stop has returned the detector is not running, the API server is closed
\* and the PID file is absent.
C26_StopLeavesLockAbsent == []C26_AbsentAfterStop /\ [][C26_LastStepRemoves]_vars

C26_Order ==
    /\ C26_TornDown
    /\ \A p \in Daemons :
           dmn[p].pc = "done" => pidFile = NoFile \/ dmn[p].rmErr

C26_FileRemovedLast ==
    /\ C26_FileKeptUntilLast
    /\ \A p \in Daemons :
           (dmn[p].pc = "rmpid" /\ MainSteps(p)) =>
               /\ dmn'[p].pc = "done"
               /\ dmn'[p].stopErr = Nil
               /\ \/ pidFile' = NoFile
                  \/ pidFile' = pidFile /\ dmn'[p].rmErr

\* C26, amended: Stop has the detector stopped, its loop returned, before
\* it shuts the API server down, and comes to the PID file after both, in
\* its last step; when Stop has returned the detector is not running, the
\* API server is closed and the PID file is absent unless os.Remove failed
\* on it, in which case the file is as it was.
C26_StopTearsDownInOrder == []C26_Order /\ [][C26_FileRemovedLast]_vars

\* Stop of a daemon with a detector has returned and has removed the PID
\* file.
C26_Witness ==
    \E p \in Daemons :
        /\ dmn[p].pc = "done"
        /\ dmn[p].det
        /\ dmn[p].loop = "exited"
        /\ dmn[p].api = "closed"
        /\ ~dmn[p].rmErr
        /\ pidFile = NoFile

\* Wait of daemon p receives from shutdownCh.
WaitReceives(p) ==
    /\ dmn[p].pc = "wait"
    /\ Len(dmn[p].ch) > 0
    /\ dmn'[p].pc # "wait"

C27_ReceiptRunsStop ==
    \A p \in Daemons :
        /\ dmn[p].pc = "wait" /\ dmn'[p].pc # "wait" =>
               Len(dmn[p].ch) > 0 \/ dmn'[p].pc = "gone"
        /\ WaitReceives(p) => dmn'[p].pc \in {"cancel", "gone"}
        /\ dmn[p].asked = "acked" /\ dmn'[p].asked = "no" =>
               dmn'[p].ch = <<NilSignal>> \/ PidOf(p) \notin alive'

\* C27: Wait leaves its receive only with a value from shutdownCh, a signal
\* or the value an acknowledged API shutdown request sent, and in both
\* cases goes on to Stop, unless the process is killed.
C27_ShutdownRequestRunsStop == [][C27_ReceiptRunsStop]_vars

\* IsDaemonRunning takes a step: it reads the PID file, or it probes the
\* pid it read and returns.
Probes == <<cli'.look, cli'.probe>> # <<cli.look, cli.probe>>

C28_Probe ==
    Probes =>
        /\ (cli.look = 0 /\ pidFile = NoFile) =>
               /\ cli'.probe = <<[running |-> FALSE, err |-> Nil]>>
               /\ cli'.look = 0
        /\ (cli.look = 0 /\ (LockStale \/ LockHeld)) =>
               /\ cli'.look = Recorded
               /\ cli'.probe = cli.probe
        /\ cli.look # 0 =>
               /\ cli'.look = 0
               /\ cli'.probe = <<[running |-> cli.look \in alive, err |-> Nil]>>
        /\ pidFile' = pidFile
        /\ alive' = alive
        /\ dmn' = dmn
        /\ port' = port

\* C28: IsRunning returns (false, nil) when the PID file does not exist;
\* else it takes the pid the file records and returns false when that
\* process is not alive and true when it is alive; and it leaves the PID
\* file and every process as they are.
C28_IsRunningOnlyProbes == [][C28_Probe]_vars

\* IsRunning has answered true for a Running daemon, which is Running still.
C28_Witness ==
    /\ cli.probe = <<[running |-> TRUE, err |-> Nil]>>
    /\ Running(1)
    /\ OwnLock(pidFile, 1)

\* StopDaemon returns in this step.
StopDaemonReturns == cli.pc # "returned" /\ cli'.pc = "returned"

\* The PID file is there and does not parse to a pid.
LockUnparsable == pidFile # NoFile /\ ~Atoi(TrimSpace(pidFile[1])).ok

\* The signals StopDaemon has sent and the polls it has made; a nil return
\* has signalled the process, which is gone.
C29_Signals ==
    /\ cli.sent \in {<<>>, <<SIGTERM>>, <<SIGTERM, SIGKILL>>}
    /\ cli.polls <= MaxPolls
    /\ cli.pc = "poll" => cli.sent = <<SIGTERM>>
    /\ Len(cli.sent) = 2 => cli.polls = MaxPolls
    /\ (cli.pc = "returned" /\ cli.err = Nil) =>
           /\ cli.pid \notin alive
           /\ Len(cli.sent) >= 1

\* The early error returns, the kill, and the error returns' PID file.
C29_SignalSteps ==
    /\ (cli.pc = "idle" /\ cli'.pc # "idle" /\ (pidFile = NoFile \/ LockUnparsable)) =>
           /\ cli'.pc = "returned"
           /\ cli'.err \in {ErrPIDNotFound, ErrInvalidPID}
           /\ cli'.sent = <<>>
           /\ UNCHANGED <<pidFile, alive, port, dmn>>
    /\ Len(cli'.sent) = 2 /\ Len(cli.sent) = 1 =>
           /\ cli.polls = MaxPolls
           /\ cli.pid \in alive
           /\ cli.pid \notin alive'
    /\ (StopDaemonReturns /\ cli'.err # Nil) => pidFile' = pidFile

C29_RemovedOnNilReturn ==
    /\ C29_Signals
    /\ (cli.pc = "returned" /\ cli.err = Nil) => pidFile = NoFile

C29_NilReturnRemoves ==
    /\ C29_SignalSteps
    /\ (StopDaemonReturns /\ cli'.err = Nil) => pidFile' = NoFile

\* C29 as stated: StopDaemon sends SIGTERM first, polls the process at most
\* MaxPolls times, kills it only when it was alive at every poll, and has
\* removed the PID file whenever it returns nil; when the PID file is
\* missing or does not parse it returns an error and has sent no signal.
C29_NilReturnLeavesNoLock ==
    []C29_RemovedOnNilReturn /\ [][C29_NilReturnRemoves]_vars

C29_Phases ==
    /\ C29_Signals
    /\ (cli.pc = "returned" /\ cli.err = Nil) => pidFile = NoFile \/ cli.rmErr

C29_Steps ==
    /\ C29_SignalSteps
    /\ (StopDaemonReturns /\ cli'.err = Nil) =>
           /\ cli.pc = "remove"
           /\ \/ pidFile' = NoFile
              \/ pidFile' = pidFile /\ cli'.rmErr

\* C29, amended: StopDaemon sends SIGTERM first, polls the process at most
\* MaxPolls times, kills it only when it was alive at every poll, and
\* returns nil only from its os.Remove of the PID file, after which the
\* file is absent unless that os.Remove failed on it; when the PID file is
\* missing or does not parse it returns an error and has sent no signal.
C29_StopDaemonTwoPhase == []C29_Phases /\ [][C29_Steps]_vars

\* StopDaemon polled MaxPolls times, killed the process, removed the PID
\* file and returned nil.
C29_Witness ==
    /\ cli.pc = "returned"
    /\ cli.err = Nil
    /\ cli.sent = <<SIGTERM, SIGKILL>>
    /\ cli.polls = MaxPolls
    /\ ~cli.rmErr
    /\ pidFile = NoFile

----------------------------------------------------------------------------
(* Claims about the daemon's API, checked under SpecApi *)

\* A request is answered in this step.
Requested == resp'.n # resp.n

\* The request answered in this step reached the registry call of its
\* handler.
Decoded == resp'.method = "POST" /\ resp'.valid

\* The registry is as it was.
RegistrySame == charts' = charts /\ images' = images

\* What the Registry operation of the request answered in this step returns
\* and does, by the reference registry: whether it succeeds, and the pairs
\* of both maps after it.
RegistryOp ==
    LET o == resp'.original
        a == resp'.arg
    IN  CASE resp'.path = "charts" ->
               [ok |-> ValidateChartPath(a).err = Nil,
                charts |-> RefPut(AsPairs(charts), o, ValidateChartPath(a).absPath),
                images |-> AsPairs(images)]
          [] resp'.path = "charts/remove" ->
               [ok |-> \E e \in AsPairs(charts) : e[1] = o,
                charts |-> RefDrop(AsPairs(charts), o),
                images |-> AsPairs(images)]
          [] resp'.path = "images" ->
               [ok |-> ValidateImageRefs(o, a) = Nil,
                charts |-> AsPairs(charts),
                images |-> RefPut(AsPairs(images), o, a)]
          [] resp'.path = "images/remove" ->
               [ok |-> \E e \in AsPairs(images) : e[1] = o,
                charts |-> AsPairs(charts),
                images |-> RefDrop(AsPairs(images), o)]

Mutations == {"charts", "charts/remove", "images", "images/remove"}

C30_Request ==
    Requested =>
        /\ (resp'.path \in Mutations /\ Decoded) =>
               /\ resp'.code = StatusOK <=> RegistryOp.ok
               /\ RegistryOp.ok =>
                      /\ AsPairs(charts') = RegistryOp.charts
                      /\ AsPairs(images') = RegistryOp.images
        /\ resp'.code # StatusOK => RegistrySame
        /\ (resp'.path \in Mutations /\ ~Decoded) => resp'.code # StatusOK
        /\ (resp'.path = "substitutions" /\ resp'.method = "GET") =>
               /\ resp'.code = StatusOK
               /\ RegistrySame
               /\ ListedCharts(resp'.charts) = AsPairs(charts)
               /\ Len(resp'.charts) = Cardinality(AsPairs(charts))
               /\ ListedImages(resp'.images) = AsPairs(images)
               /\ Len(resp'.images) = Cardinality(AsPairs(images))

\* C30: a request to add or remove a chart or image substitution is
\* answered with success exactly when the Registry operation on the
\* daemon's registry succeeds and then has that operation's effect, an
\* answer other than success leaves the registry as it was, and the list
\* request returns exactly the registry's chart and image pairs.
C30_ApiIsRegistry == [][C30_Request]_vars

\* The list request answered with a chart and an image substitution that
\* were added through the API.
C30_Witness ==
    /\ resp.path = "substitutions"
    /\ resp.code = StatusOK
    /\ Len(resp.charts) >= 1
    /\ Len(resp.images) >= 1
    /\ ListedCharts(resp.charts) = AsPairs(charts)

----------------------------------------------------------------------------
(* Claims about the registry commands of the CLI, checked under SpecClient *)

\* A registry command runs and returns in this step.
Commanded == client'.n # client.n

\* The registry of the command's own process was left as main created it.
LocalUntouched ==
    client'.localCharts = EmptyMap /\ client'.localImages = EmptyMap

\* The PID file indicated a running daemon to the command that returns in
\* this step: its IsDaemonRunning returned true, or, when it did not call
\* it, the file records a live process.
DaemonIndicated ==
    IF client'.cmd \in {"chart", "image"} THEN client'.found ELSE LockHeld

\* The command of this step went where the PID file points: to the daemon's
\* API and not to the local registry when the file indicated a running
\* daemon, to the local registry with no API request otherwise.
RoutedByLock ==
    /\ DaemonIndicated => client'.route = "api" /\ LocalUntouched
    /\ ~DaemonIndicated =>
           /\ client'.route = "local"
           /\ resp' = resp
           /\ RegistrySame

\* C31: every add or remove command of the CLI is applied to exactly one
\* registry: sent to the daemon's API, the local registry untouched, when
\* the PID file indicated a live daemon to it; applied to the local registry
\* with no API request when it did not.
C31_OneRegistryPerCommand == [][Commanded => RoutedByLock]_vars

----------------------------------------------------------------------------
(* Claims about cancellation and the detector's check, checked under
   SpecLive, SpecDet and SpecTick *)

\* A loop is inside checkDrift.
MidCheck(l) == loops[l].pc \in {"diff", "report", "notify", "heal", "renotify"}

\* What one unit of a finished check got: one diff when it is installed,
\* and with a report the detection to every notifier of the snapshot, one
\* healFunc call when the snapshot has auto-heal, and after a heal that
\* succeeded the healed report to every notifier of the snapshot.
UnitFinished(log, r) ==
    LET diffs == EventsOf(log, "diff", r.Name)
        heals == EventsOf(log, "heal", r.Name) IN
    IF ~MarkedInstalled(r) THEN Len(diffs) = 0
    ELSE /\ Len(diffs) = 1
         /\ Len(diffs[1].rep) = 1 =>
                /\ Receivers(Deliveries(log, r.Name, FALSE)) = Registered(diffs[1].to)
                /\ Len(heals) = 1
                /\ ~heals[1].err =>
                       Receivers(Deliveries(log, r.Name, TRUE)) = Registered(diffs[1].to)
                /\ heals[1].err => Len(Deliveries(log, r.Name, TRUE)) = 0

C32_CheckRunsToItsEnd ==
    \A l \in 1..Len(loops) :
        CheckDone(l) =>
            \A j \in 1..Len(loops[l].rels) :
                UnitFinished(loops[l].log, loops[l].rels[j])

C32_NoExitMidCheck ==
    \A l \in 1..Len(loops) :
        MidCheck(l) =>
            /\ loops'[l].pc # "exited"
            /\ Len(loops'[l].log) >= Len(loops[l].log)
            /\ loops'[l].pc # loops[l].pc \/ loops'[l].k # loops[l].k =>
                   \/ Len(loops'[l].log) = Len(loops[l].log) + 1
                   \/ /\ loops[l].pc = "diff" /\ loops'[l].pc = "report"
                      /\ Len(loops'[l].rep) = 1
                      /\ loops'[l].log = loops[l].log

\* C32: a check that has begun is not cut short by cancellation: the loop
\* leaves only from run's select, every step inside a check is a diff (with
\* a report, followed by handleDriftReport's copy of the settings), a
\* Notify or a healFunc call of that check, and when the check is back at
\* the select every installed unit was diffed and every report dispatched,
\* healed and re-dispatched in full, whether the context is done or not.
C32_CancelAtTickBoundary == []C32_CheckRunsToItsEnd /\ [][C32_NoExitMidCheck]_vars

\* A check begun by a tick has run both units to their healed reports and
\* is back at the select with the context done, while the Stop that
\* cancelled it still waits for the loop.
C32_Witness ==
    \E l \in 1..Len(loops) :
        /\ CheckDone(l)
        /\ loops[l].by = "tick"
        /\ CtxDone(dCtx)
        /\ Len(Heals(loops[l].log, FALSE)) = 2
        /\ Len(loops[l].log) = 12
        /\ \E c \in DOMAIN callers : callers[c].pc = "wait"

\* ---------------------------------------------------------------------
\* The auto-heal callback.

\* The positions in a log of the events of a kind about a unit.
PositionsOf(log, ev, unit) ==
    {j \in 1..Len(log) : log[j].ev = ev /\ log[j].unit = unit}

\* The positions of the Notify calls about a unit with the given healed
\* flag in the report passed.
NotifiedAt(log, unit, healed) ==
    {j \in PositionsOf(log, "notify", unit) : log[j].rep[1].Healed = healed}

\* The settings a loop copied for the report in hand allow healing.
HealEnabled(lp) == lp.snap.autoHeal /\ lp.snap.healFunc # Nil

\* The loop is handling a report.
Handling(lp) == lp.pc \in {"notify", "heal", "renotify"}

\* A loop logs a healFunc call.
HealCalled(l) ==
    /\ l <= Len(loops)
    /\ Len(loops'[l].log) = Len(loops[l].log) + 1
    /\ loops'[l].log[Len(loops'[l].log)].ev = "heal"

\* In the log of a check healFunc was called at most once per unit, with
\* the name of the unit of the report in hand, after every Notify call of
\* the detection report and before every Notify call of the healed one;
\* a healed report was passed only after a healFunc call that succeeded.
C33_HealBetweenRounds ==
    \A l \in 1..Len(loops) :
        LET log == loops[l].log IN
        \A j \in 1..Len(log) :
            /\ log[j].ev = "heal" =>
                   /\ Cardinality(PositionsOf(log, "heal", log[j].unit)) = 1
                   /\ log[j].unit = log[j].rep[1].ReleaseName
                   /\ log[j].rep = log[FirstOf(log, "diff", log[j].unit)].rep
                   /\ \A n \in NotifiedAt(log, log[j].unit, FALSE) : n < j
                   /\ \A n \in NotifiedAt(log, log[j].unit, TRUE) : n > j
                   /\ Cardinality(NotifiedAt(log, log[j].unit, FALSE)) =
                          log[FirstOf(log, "diff", log[j].unit)].to
            /\ log[j].ev = "notify" /\ log[j].rep[1].Healed =>
                   \E h \in 1..(j - 1) :
                       /\ log[h].ev = "heal" /\ ~log[h].err
                       /\ log[h].unit = log[j].unit

\* A loop about to call healFunc, or past the call, copied settings that
\* allow healing; one that copied settings that do not has neither called
\* healFunc for the unit in hand nor passed a healed report of it.
C33_OnlyWhenEnabled ==
    \A l \in 1..Len(loops) :
        LET lp == loops[l] IN
        /\ lp.pc \in {"heal", "renotify"} => HealEnabled(lp)
        /\ Handling(lp) /\ ~HealEnabled(lp) =>
               /\ PositionsOf(lp.log, "heal", lp.rep[1].ReleaseName) = {}
               /\ NotifiedAt(lp.log, lp.rep[1].ReleaseName, TRUE) = {}

\* The settings copied for a report are those in force when the report is
\* made and stay with the loop while it handles the report; healFunc is
\* called only by a loop whose copy allows healing, and a loop whose copy
\* does not goes from the detection round to the next unit.
C33_SettingsPerReport ==
    \A l \in 1..Len(loops) :
        /\ ReportMade(l) /\ Handling(loops'[l]) =>
               /\ loops'[l].snap.autoHeal = autoHeal
               /\ loops'[l].snap.healFunc = healFunc
        /\ Handling(loops[l]) /\ Handling(loops'[l]) =>
               loops'[l].snap = loops[l].snap
        /\ HealCalled(l) => loops[l].pc = "heal" /\ HealEnabled(loops[l])
        /\ Handling(loops[l]) /\ ~HealEnabled(loops[l]) =>
               loops'[l].pc \in {"notify", "diff", "select"}

\* C33: healFunc is called only for a report taken up while auto-heal was on
\* with a function set, once per report, with the name of the report's
\* unit, after the detection report went to every notifier and before any
\* healed report goes out; for a report taken up with auto-heal off (or with no
\* function) healFunc is not called and no healed report is passed.
C33_HealOncePerReport ==
    /\ []C33_HealBetweenRounds
    /\ []C33_OnlyWhenEnabled
    /\ [][C33_SettingsPerReport]_vars

\* A loop has passed the detection report to both notifiers, called
\* healFunc once, and has passed the healed report to the first notifier
\* only.
C33_Witness ==
    \E l \in 1..Len(loops) :
        /\ loops[l].pc = "renotify" /\ loops[l].k = 2
        /\ Len(loops[l].snap.notifiers) = 2
        /\ Len(loops[l].log) = 5
        /\ loops[l].log[4].ev = "heal"
        /\ loops[l].log[4].unit = loops[l].log[1].unit
        /\ loops[l].log[5].rep[1].Healed

\* ---------------------------------------------------------------------
\* AddNotifier while a check runs.

\* The ids of the first n notifiers of a sequence.
IdsOf(ns, n) == [j \in 1..n |-> ns[j].id]

\* The notifiers a log shows a report of a unit with the given healed flag
\* was passed to, in order.
SentTo(log, unit, healed) == Receivers(Deliveries(log, unit, healed))

\* While a loop handles a report its copy of the notifiers is a prefix of
\* the registered ones, and the Notify calls made for the report so far
\* went down that copy in order: the detection round to its first k - 1
\* (all of it once the round is over), the healed round likewise.
C34_OneSnapshotPerReport ==
    \A l \in 1..Len(loops) :
        LET lp == loops[l]
            unit == lp.rep[1].ReleaseName
            all == Len(lp.snap.notifiers) IN
        Handling(lp) =>
            /\ IsPrefix(lp.snap.notifiers, notifiers)
            /\ SentTo(lp.log, unit, FALSE) =
                   IdsOf(lp.snap.notifiers,
                         IF lp.pc = "notify" THEN lp.k - 1 ELSE all)
            /\ SentTo(lp.log, unit, TRUE) =
                   IdsOf(lp.snap.notifiers,
                         IF lp.pc = "renotify" THEN lp.k - 1 ELSE 0)

\* In the log of a check a notifier was passed the healed report of a unit
\* only if it was passed the detection report of that unit before.
C34_HealedOnlyAfterDetection ==
    \A l \in 1..Len(loops) :
        LET log == loops[l].log IN
        \A j \in 1..Len(log) :
            log[j].ev = "notify" /\ log[j].rep[1].Healed =>
                \E d \in 1..(j - 1) :
                    /\ log[d].ev = "notify" /\ ~log[d].rep[1].Healed
                    /\ log[d].unit = log[j].unit /\ log[d].to = log[j].to

\* No step takes a notifier out of the registered ones or moves it, and a
\* loop that makes a report copies every notifier registered by then.
C34_RegisteredStay ==
    /\ IsPrefix(notifiers, notifiers')
    /\ \A l \in 1..Len(loops) :
           ReportMade(l) =>
               /\ loops'[l].log[Len(loops'[l].log)].to = Len(notifiers)
               /\ Len(notifiers) > 0 =>
                      /\ loops'[l].pc = "notify"
                      /\ loops'[l].snap.notifiers = notifiers

\* C34: AddNotifier may run while a check does: no registered notifier is
\* lost, both rounds of one report go to one copy of the notifiers (the
\* healed report only to notifiers that got the detection), and a report
\* made after an AddNotifier returned goes to the notifier added.
C34_AddNotifierDuringTick ==
    /\ []C34_OneSnapshotPerReport
    /\ []C34_HealedOnlyAfterDetection
    /\ [][C34_RegisteredStay]_vars

\* The second notifier was registered while the report of the first unit
\* was handled: that report went, detected and healed, to the first
\* notifier only, and the report of the second unit to both.
C34_Witness ==
    \E l \in 1..Len(loops) :
        LET log == loops[l].log IN
        /\ CheckDone(l)
        /\ Len(notifiers) = 2
        /\ Len(loops[l].rels) = 2
        /\ SentTo(log, loops[l].rels[1].Name, FALSE) = IdsOf(notifiers, 1)
        /\ SentTo(log, loops[l].rels[1].Name, TRUE) = IdsOf(notifiers, 1)
        /\ SentTo(log, loops[l].rels[2].Name, FALSE) = IdsOf(notifiers, 2)

\* ---------------------------------------------------------------------
\* Checks and cancellation.

\* No loop begins a check when the context of the detector is done.
C35_BeginsOnlyUncancelled ==
    \A l \in 1..Len(loops) : CheckBegins(l) => ~CtxDone(dCtx)

\* C35: once cancellation has been requested no check begins: neither for
\* a tick that waits when the cancellation shows, nor the initial check of
\* a loop whose context is done when it starts.
C35_NoCheckAfterCancel == [][C35_BeginsOnlyUncancelled]_vars

\* ---------------------------------------------------------------------
\* Start and Stop called concurrently.

\* The loops that have not exited.
Alive == {l \in 1..Len(loops) : loops[l].pc # "exited"}

\* At most one loop is alive, and the running flag is set while one is.
C36_OneLoopAndRunning ==
    /\ Cardinality(Alive) <= 1
    /\ Alive # {} => dRunning

\* C36: however Start and Stop calls on one detector interleave, at most
\* one loop is alive at any time and the running flag is true whenever a
\* loop is alive.
C36_AtMostOneLoop == []C36_OneLoopAndRunning

\* ---------------------------------------------------------------------
\* The context passed to Start is cancelled by its owner.  Checked under
\* SpecExit.

\* A Stop call is in progress, and one has returned nil.
StopInProgress(c) == callers[c].op = "Stop" /\ callers[c].pc # "idle"
StopReturnedNil(c) ==
    callers[c].op = "Stop" /\ callers[c].pc = "idle" /\ callers[c].err = Nil

\* Once the owner has cancelled, every loop launched exits.
C37_LoopExits ==
    \A l \in 1..MaxDetCalls :
        (parentDone /\ l <= Len(loops)) ~> (l <= Len(loops) /\ loops[l].pc = "exited")

\* Every Stop in progress returns nil with the detector not running.
C37_StopReturns ==
    \A c \in Callers :
        StopInProgress(c) ~> (StopReturnedNil(c) /\ ~dRunning)

\* The WaitGroup counts the loops alive, so a Stop at its Wait goes on at
\* once when every loop has exited.
C37_WaitCountsLoops == wg = Cardinality(Alive)

\* The exit of a loop leaves the running flag as it is, and a Stop called
\* on a detector whose flag is set goes on to cancel and wait, whether its
\* loop has exited or not.
C37_ExitKeepsRunning ==
    /\ \A l \in 1..Len(loops) :
           loops[l].pc # "exited" /\ loops'[l].pc = "exited" =>
               /\ CtxDone(dCtx)
               /\ dRunning' = dRunning
    /\ \A c \in Callers :
           StopCalled(c) /\ dRunning => callers'[c].pc = "cancel"

\* C37: when the owner of the context passed to Start cancels it the loop
\* exits; a Stop called after that returns nil, without waiting for
\* anything once the loop has exited, and leaves the detector not running.
C37_ParentCancelThenStop ==
    /\ C37_LoopExits
    /\ C37_StopReturns
    /\ []C37_WaitCountsLoops
    /\ [][C37_ExitKeepsRunning]_vars

\* The owner has cancelled, the loop has exited, and a Stop that cancelled
\* nothing but a context already done has returned nil and cleared the
\* running flag.
C37_Witness ==
    /\ parentDone
    /\ Len(loops) = 1 /\ loops[1].pc = "exited"
    /\ \E c \in Callers : StopReturnedNil(c) /\ callers[c].call = 2
    /\ ~dRunning
    /\ wg = 0

\* ---------------------------------------------------------------------
\* The list and status answers, served beside other requests.  Checked
\* under SpecList.

\* A map as the set of its entries, and a list of a registry call as the
\* set of the entries it names.
EntriesOf(m) == {<<k, m[k]>> : k \in DOMAIN m}
ChartEntries(list) ==
    {<<list[i].Original, list[i].LocalPath>> : i \in 1..Len(list)}
ImageEntries(list) ==
    {<<list[i].Original, list[i].Replacement>> : i \in 1..Len(list)}

\* The answer of a served request describes registry state s: the lists
\* name its entries, or the counts of the status are its sizes.
Describes(l, s) ==
    IF l.kind = "status"
    THEN /\ ListAnswer(l).charts = Cardinality(DOMAIN s[1])
         /\ ListAnswer(l).images = Cardinality(DOMAIN s[2])
    ELSE /\ ChartEntries(ListAnswer(l).charts) = EntriesOf(s[1])
         /\ ImageEntries(ListAnswer(l).images) = EntriesOf(s[2])

\* The answer of a served list or status request describes a state the
\* registry was in at some instant between the request and the answer.
C38_AnswerIsOneState ==
    lst.pc = "done" => \E s \in lst.seen : Describes(lst, s)

\* C38: the chart part and the image part of one list answer, and the two
\* counts of one status answer, were both current at one instant between
\* request and answer, also while other requests change the registry.
C38_ListIsOneInstant == []C38_AnswerIsOneState

\* ---------------------------------------------------------------------
\* The errors of Stop, and Stop called again.  Checked under SpecStopErr.

\* A Stop of the daemon has returned.
StopReturned(p) == dmn[p].pc = "done"

\* A Stop called on a stopped daemon returns in this step.
StopsAgain(p) == StopReturned(p) /\ dmn'[p].stops = dmn[p].stops + 1

\* After every Stop that returned the PID file is absent.
C39_FileAbsentAfterStop ==
    \A p \in Daemons : StopReturned(p) => dmn[p].stopErr = Nil /\ pidFile = NoFile

\* C39 as stated: Stop returns nil and leaves the PID file absent whatever
\* errors the detector's Stop, the API shutdown or the removal of the file
\* report.
C39_StopLeavesNoFile == []C39_FileAbsentAfterStop

\* Every Stop that returned returned nil, with the detector not running
\* and its loop exited, the API server shut down, and the PID file absent
\* unless os.Remove failed on it.
C39_StopReturnsNil ==
    \A p \in Daemons :
        StopReturned(p) =>
            /\ dmn[p].stopErr = Nil
            /\ ~dmn[p].running /\ dmn[p].loop # "live"
            /\ dmn[p].api = "closed"
            /\ dmn[p].ctxDone
            /\ pidFile # NoFile => dmn[p].rmErr

\* A Stop called on a stopped daemon returns nil and changes nothing of
\* the daemon; of the PID file it can only remove what the first Stop
\* failed to remove.
C39_SecondStopChangesNothing ==
    \A p \in Daemons :
        StopsAgain(p) =>
            /\ dmn'[p] = [dmn[p] EXCEPT !.stops = dmn'[p].stops,
                                        !.rmErr = dmn'[p].rmErr]
            /\ dmn'[p].stopErr = Nil
            /\ pidFile' \in {pidFile, NoFile}
            /\ UNCHANGED <<alive, port>>

\* C39, amended: Stop always returns nil, with the detector stopped and the
\* API shut down, and leaves the PID file absent unless the removal of the
\* file itself failed; a second Stop on a stopped daemon returns nil and
\* starts or stops nothing.
C39_StopIgnoresErrors ==
    []C39_StopReturnsNil /\ [][C39_SecondStopChangesNothing]_vars

\* Stop was called twice on a daemon with a detector: both returned nil,
\* the second found no PID file to remove.
C39_Witness ==
    /\ StopReturned(1)
    /\ dmn[1].det
    /\ dmn[1].stops = 2
    /\ dmn[1].stopErr = Nil
    /\ dmn[1].rmErr
    /\ pidFile = NoFile

\* ---------------------------------------------------------------------
\* The registry's lock is released on every path, and every call returns.
\* Checked under SpecConcFair.

\* Goroutine g is inside a registry call.
InRegistryCall(g) == gor[g].pc # "idle"

\* Goroutine g waits for the lock and cannot have it now.
WaitsForLock(g) ==
    \/ gor[g].pc = "lock" /\ mu.writer # {}
    \/ gor[g].pc = "drain" /\ mu.readers # {}

\* The lock is held or announced by goroutines between their Lock / RLock
\* and their return, and by no others: a goroutine that has returned,
\* with an error or without, holds nothing.
C40_LockOnlyInsideCalls ==
    /\ mu.writer =
           {g \in Goroutines : gor[g].op \in WriterOps
                               /\ gor[g].pc \in {"drain", "locked", "writing", "unlock"}}
    /\ mu.readers =
           {g \in Goroutines : gor[g].op \in GetOps \cup ListOps
                               /\ gor[g].pc \in {"locked", "unlock"}}

\* While calls are in progress one of them can take a step: the callers
\* never all wait for the lock.
C40_NoDeadlock ==
    (\E g \in Goroutines : InRegistryCall(g)) =>
        \E g \in Goroutines : InRegistryCall(g) /\ ~WaitsForLock(g)

\* Every call in progress returns.
C40_EveryCallReturns ==
    \A g \in Goroutines : InRegistryCall(g) ~> ~InRegistryCall(g)

\* C40: every registry call takes the one mutex of the registry, finishes
\* and releases it on every path, the error returns included; no
\* interleaving of calls deadlocks, and every call returns.
C40_CallsTerminate ==
    /\ []C40_LockOnlyInsideCalls
    /\ []C40_NoDeadlock
    /\ C40_EveryCallReturns

\* All the calls there were have returned, one of them an add of an image
\* and another with an error still in hand a step before; the lock is free.
C40_Witness ==
    /\ calls = MaxCalls
    /\ completed # {}
    /\ mu.readers = {}
    /\ \E g \in Goroutines :
           /\ gor[g].pc = "unlock" /\ gor[g].err # Nil
           /\ mu.writer = {g}
           /\ \A h \in Goroutines \ {g} : ~InRegistryCall(h)

====
